---- MODULE Spec2Model ----
(***************************************************************************)
(* PMS sync orchestrator of Workfin_backend: PMSSyncService.sync_entity /  *)
(* sync_all (app/services/pms_sync_service.py), run as background tasks    *)
(* (app/api/v1/endpoints/pms_integrations.py), each with its own database  *)
(* session, against the integrations.sync_history, pms_connections and     *)
(* soe.* tables (app/db/pms_models.py) and the data-lake source            *)
(* (app/services/azure_blob_service.py).                                   *)
(*                                                                         *)
(* Committed database state is kept apart from what a session has executed *)
(* but not committed.  A batch upsert (its INSERT .. ON CONFLICT statements*)
(* and its commit) is one step: rows written by an open transaction are    *)
(* invisible to, and locked against, every other session until the commit. *)
(***************************************************************************)
EXTENDS Integers, Sequences, FiniteSets, TLC

\* ---------------------------------------------------------------- bounds
MaxEnvChanges == 1       \* source changes and connection updates
BATCH_SIZE == 2          \* pms_sync_service.py:22 sets 50; scaled down

\* ------------------------------------------------------------- constants
Null == "null"
Conns == {"c1", "c2"}
Tasks == {1, 2}          \* background tasks (each runs once)

\* Keys of entity_map / entity_flags, in dict order (sync_entity, sync_all).
EntityOrder == <<"patients", "appointments", "providers">>
EntityMap == {EntityOrder[i] : i \in 1..Len(EntityOrder)}
\* The per-entity enable flags of PMSConnection (sync_<name>).
FlagNames == {"patients", "appointments", "providers", "treatments", "billing"}
\* Column defaults of the flags: all true but sync_billing.
DefaultFlags == {"patients", "appointments", "providers", "treatments"}
\* entity_type strings a caller may hand to sync_entity.
RequestTypes == EntityMap \cup {"treatments"}
\* sync_entity invocations over all tasks: a full sync_all and one more.
MaxRuns == Len(EntityOrder) + 1

\* A source row: ext = 0 is a row without a usable key (missing external id,
\* Delta metadata row); fault says what writing the row does:
\*   "type"       the statement raises while binding its parameters, the
\*                transaction stays usable;
\*   "constraint" the server rejects the statement and the PostgreSQL
\*                transaction is aborted.
Rec(k, v, f) == [ext |-> k, val |-> v, fault |-> f]
BaseRows == <<Rec(1, 1, "none"), Rec(2, 1, "none")>>
SourceMenu ==
  { <<Rec(0, 1, "none"), Rec(1, 2, "none"), Rec(3, 1, "none"),
      Rec(4, 1, "none")>>,
    <<Rec(1, 1, "none"), Rec(2, 1, "constraint"), Rec(3, 1, "none"),
      Rec(4, 1, "none")>>,
    <<Rec(1, 1, "none"), Rec(2, 1, "none"), Rec(3, 1, "none"),
      Rec(4, 1, "type"), Rec(5, 1, "none")>> }

ZeroStats == [records_processed |-> 0, records_created |-> 0,
              records_updated |-> 0, records_skipped |-> 0,
              records_failed |-> 0]
NullStats == [records_processed |-> Null, records_created |-> Null,
              records_updated |-> Null, records_skipped |-> Null,
              records_failed |-> Null]

VARIABLES
  connections,   \* integrations.pms_connections, committed
  sync_history,  \* integrations.sync_history, committed: row id -> row
  tables,        \* soe.patients / appointments / providers, committed rows
  source,        \* the data lake: per entity table, read unscoped
  tasks,         \* the background tasks and their sessions
  clock,         \* datetime.now(timezone.utc): advances when a run ends
  envChanges,    \* environment changes made so far
  runlog,        \* per sync_entity invocation (history id): what happened
  scope,         \* one source-side id resolution and scoped read
  xero,          \* the Xero adapter: token cache and one paginated fetch
  dates,         \* one call of parse_xero_date / parse_xero_datetime
  norm,          \* one call of a value normalisation function
  xsync,         \* one request to the Xero sync-all endpoint
  soe_integrations, \* soe.soe_integrations and the runs that fill it
  xrows,         \* one Xero table and the syncs that write it
  refresh,       \* concurrent requests sharing the Xero token cache
  trigger        \* one sync trigger request and its background task

pmsVars == <<connections, sync_history, tables, source, tasks, clock,
             envChanges, runlog>>
lateVars == <<norm, xsync, soe_integrations, xrows, refresh, trigger>>
sideVars == <<scope, xero, dates, lateVars>>
vars == <<pmsVars, sideVars>>

\* A component that takes no part in the specification at hand.
Off == [pc |-> "off"]

EmptyFn == [x \in {} |-> Null]
Put(f, k, v) == [x \in DOMAIN f \cup {k} |-> IF x = k THEN v ELSE f[x]]

\* ------------------------------------------------------------------ Init
IdleTask ==
  [kind |-> "none", conn |-> Null, pc |-> "idle", flags |-> {},
   queue |-> <<>>, entity |-> Null, hid |-> Null, fnow |-> 0,
   df |-> <<>>, pos |-> 1, stats |-> ZeroStats, pending |-> <<>>,
   aborted |-> FALSE, err |-> Null, results |-> EmptyFn, invoked |-> <<>>,
   outcome |-> Null, seen |-> Null, has_count |-> FALSE, expired |-> FALSE]

PmsInit ==
  /\ connections = [c \in Conns |->
       [flags |-> DefaultFlags, last_sync_at |-> Null,
        last_sync_status |-> Null, last_sync_error |-> Null,
        last_sync_records_count |-> Null]]
  /\ sync_history = EmptyFn
  /\ tables = {}
  /\ source = [e \in EntityMap |-> [up |-> TRUE, rows |-> BaseRows]]
  /\ tasks = [t \in Tasks |-> IdleTask]
  /\ clock = 0
  /\ envChanges = 0
  /\ runlog = EmptyFn

LateOff ==
  /\ norm = Off /\ xsync = Off /\ soe_integrations = Off
  /\ xrows = Off /\ refresh = Off /\ trigger = Off
Init == PmsInit /\ scope = Off /\ xero = Off /\ dates = Off /\ LateOff


\* --------------------------------------------------------------- helpers
ErrUnknown == "Unknown entity type"
ErrType == "DataError"
ErrConstraint == "IntegrityError"
ErrAborted == "InFailedSQLTransactionError"
ErrPendingRollback == "PendingRollbackError"

\* str(e) of the exception a faulty row's statement raises.
FaultText(f) == IF f = "type" THEN ErrType ELSE ErrConstraint

\* A unique key on the external id alone, shared by all connections.
SameKey_AnyConnection(r, rec) ==
  /\ r.table = rec.table
  /\ r.external_id = rec.external_id

\* The unique key of the soe.* tables: (connection_id, external_<x>_id).
SameKey(r, rec) ==
  /\ r.table = rec.table
  /\ r.connection_id = rec.connection_id
  /\ r.external_id = rec.external_id

NewRow(rec) ==
  [table |-> rec.table, id |-> rec.id, connection_id |-> rec.connection_id,
   external_id |-> rec.external_id, val |-> rec.val,
   first_synced_at |-> rec.last_synced_at,
   last_synced_at |-> rec.last_synced_at]

\* A plain INSERT, without the ON CONFLICT clause and the unique index.
Upsert_PlainInsert(tbl, rec) == tbl \cup {NewRow(rec)}

\* DELETE the record with the key, then INSERT the new one under a new id.
Upsert_DeleteInsert(tbl, rec) ==
  {r \in tbl : ~SameKey(r, rec)} \cup {NewRow(rec)}

\* on_conflict_do_update whose set_ also carries first_synced_at.
Upsert_OverwriteFirst(tbl, rec) ==
  IF \E r \in tbl : SameKey(r, rec)
  THEN {IF SameKey(r, rec)
        THEN [r EXCEPT !.val = rec.val, !.last_synced_at = rec.last_synced_at,
                       !.first_synced_at = rec.last_synced_at]
        ELSE r : r \in tbl}
  ELSE tbl \cup {NewRow(rec)}

\* insert(..).values(id=uuid4(), first_synced_at=.., **record)
\*   .on_conflict_do_update(index_elements=[connection_id, external id],
\*                          set_={every field but the two key fields})
Upsert(tbl, rec) ==
  IF \E r \in tbl : SameKey(r, rec)
  THEN {IF SameKey(r, rec)
        THEN [r EXCEPT !.val = rec.val, !.last_synced_at = rec.last_synced_at]
        ELSE r : r \in tbl}
  ELSE tbl \cup {NewRow(rec)}

\* A mirroring sync: the records of the batch's connection and table whose
\* key the batch does not carry are deleted before the batch is written.
RECURSIVE ApplyAll_Mirror(_, _)
ApplyAll_Mirror(tbl, recs) ==
  IF recs = <<>> THEN tbl
  ELSE ApplyAll_Mirror(
         Upsert({r \in tbl : \/ r.table # Head(recs).table
                            \/ r.connection_id # Head(recs).connection_id
                            \/ \E i \in 1..Len(recs) : SameKey(r, recs[i])},
                Head(recs)),
         Tail(recs))

\* The statements of one transaction, in order, made durable by its commit.
RECURSIVE ApplyAll(_, _)
ApplyAll(tbl, recs) ==
  IF recs = <<>> THEN tbl
  ELSE ApplyAll(Upsert(tbl, Head(recs)), Tail(recs))

\* The record dict built for a source row (normalizer part of _sync_*).
Record(tk, i) ==
  [table |-> tk.entity, id |-> <<tk.hid, i>>, connection_id |-> tk.conn,
   external_id |-> tk.df[i].ext, val |-> tk.df[i].val,
   last_synced_at |-> tk.fnow, fault |-> tk.df[i].fault]

\* The row loop flushing only when the batch has grown past BATCH_SIZE.
RECURSIVE Fill_OffByOne(_, _, _, _)
Fill_OffByOne(tk, pos, batch, st) ==
  IF pos > Len(tk.df) \/ Len(batch) > BATCH_SIZE
  THEN [batch |-> batch, pos |-> pos, stats |-> st]
  ELSE IF tk.df[pos].ext = 0
  THEN Fill_OffByOne(tk, pos + 1, batch,
                     [st EXCEPT !.records_skipped = @ + 1])
  ELSE Fill_OffByOne(tk, pos + 1, Append(batch, Record(tk, pos)),
                     [st EXCEPT !.records_processed = @ + 1])

\* The row loop of _sync_*: skip rows without a key, count and collect the
\* others, stop when the batch is full or the frame is exhausted.
RECURSIVE Fill(_, _, _, _)
Fill(tk, pos, batch, st) ==
  IF pos > Len(tk.df) \/ Len(batch) >= BATCH_SIZE
  THEN [batch |-> batch, pos |-> pos, stats |-> st]
  ELSE IF tk.df[pos].ext = 0
  THEN Fill(tk, pos + 1, batch, [st EXCEPT !.records_skipped = @ + 1])
  ELSE Fill(tk, pos + 1, Append(batch, Record(tk, pos)),
            [st EXCEPT !.records_processed = @ + 1])

\* Index of the first record of the batch whose statement raises, or 0.
FirstFault(batch) ==
  IF \E i \in 1..Len(batch) : batch[i].fault # "none"
  THEN CHOOSE i \in 1..Len(batch) :
         /\ batch[i].fault # "none"
         /\ \A j \in 1..(i - 1) : batch[j].fault = "none"
  ELSE 0

\* azure_blob_service.get_soe_data under the try/except of _sync_*: a read
\* that raises is swallowed and leaves an empty frame.
ReadSource(e) ==
  IF source[e].up
  THEN [failed |-> FALSE, df |-> source[e].rows]
  ELSE [failed |-> TRUE, df |-> <<>>]

\* `stats` of sync_entity as the except block sees it: sync_fn raised, so
\* the assignment `stats = await sync_fn(..)` never happened.
StatsAtFailure(tk) == ZeroStats

SuccessResult(st) == [status |-> "success", stats |-> st, error |-> Null]
FailedResult(e) == [status |-> "failed", stats |-> Null, error |-> e]

\* SyncHistory(status="RUNNING", started_at=now, ..); db.add; db.commit
RunningRow(tk, id, now) ==
  [id |-> id, connection_id |-> tk.conn, sync_scope |-> tk.entity,
   status |-> "RUNNING", counts |-> NullStats, error_message |-> Null,
   started_at |-> now, completed_at |-> Null]

CommitNewHistory(h, row) == Put(h, row.id, row)

\* UPDATE .. WHERE connection_id = .. AND sync_scope = ..: every row of the
\* connection and scope instead of the call's own sync_record.
TargetRows_ByScope(h, tk) ==
  {id \in DOMAIN h : h[id].connection_id = tk.conn
                     /\ h[id].sync_scope = tk.entity}

\* The history row a sync_entity call updates: the sync_record object it
\* created on entry.
TargetRows(h, tk) == {tk.hid} \cap DOMAIN h

CompletedRow(row, st, now) ==
  [row EXCEPT !.status = "COMPLETED", !.counts = st, !.completed_at = now]

FailedRow(row, e, st, now) ==
  [row EXCEPT !.status = "FAILED", !.error_message = e,
              !.completed_at = now,
              !.counts.records_processed = st.records_processed]

\* connection.last_sync_at / _status / _error / _records_count on success
ConnSuccess(cn, st, now) ==
  [cn EXCEPT !.last_sync_at = now, !.last_sync_status = "COMPLETED",
             !.last_sync_error = Null,
             !.last_sync_records_count = st.records_processed]

ConnFailure(cn, e, now) ==
  [cn EXCEPT !.last_sync_at = now, !.last_sync_status = "FAILED",
             !.last_sync_error = e]

\* last_sync_records_count of connection c in the database is set: it is
\* written only by a commit that completes a history row of c.
HasCount(c) ==
  \E id \in DOMAIN sync_history :
    /\ sync_history[id].connection_id = c
    /\ sync_history[id].status = "COMPLETED"

\* The UPDATE of the connection row the commit's flush emits.  The session
\* holds the PMSConnection object as the task loaded it (tk.seen; the
\* session factory has expire_on_commit = False) and the unit of work sets
\* only the columns whose assigned value differs from the value the object
\* held; `new` is the object after the assignments.  last_sync_at always
\* differs, the time having advanced.
FlushConnection(db, tk, new, success) ==
  [db EXCEPT
     !.last_sync_at = new.last_sync_at,
     !.last_sync_status =
        IF new.last_sync_status # tk.seen.last_sync_status
        THEN new.last_sync_status ELSE @,
     !.last_sync_error =
        IF new.last_sync_error # tk.seen.last_sync_error
        THEN new.last_sync_error ELSE @,
     !.last_sync_records_count =
        IF success /\ (~tk.has_count
                       \/ new.last_sync_records_count
                            # tk.seen.last_sync_records_count)
        THEN new.last_sync_records_count ELSE @]

\* The session after a commit whose flush the server refused: the
\* transaction is rolled back, which expires every object of the session
\* whatever expire_on_commit says, and the session takes no statement
\* until rollback() is called on it, which sync_all never does.
\* AfterFailedCommit_KeepLoaded is the session that would stay usable.
AfterFailedCommit_KeepLoaded(tk) ==
  [tk EXCEPT !.pending = <<>>, !.aborted = FALSE]

AfterFailedCommit(tk) ==
  [tk EXCEPT !.pending = <<>>, !.aborted = FALSE, !.expired = TRUE]

\* for entity_type, enabled in entity_flags.items(): if enabled: ..
SyncAllNext(tk) ==
  IF tk.queue = <<>>
  THEN [tk EXCEPT !.pc = "done", !.outcome = "returned", !.entity = Null]
  ELSE [tk EXCEPT !.pc = "create", !.entity = Head(tk.queue),
                  !.queue = Tail(tk.queue),
                  !.invoked = Append(@, Head(tk.queue))]

\* sync_all without its try/except: the failure leaves the loop.
SyncAllCatch_Propagate(tk, e) ==
  [tk EXCEPT !.pc = "done", !.outcome = "raised", !.err = e]

\* except Exception as e: results[entity_type] = {"status": "failed", ..}
SyncAllCatch(tk, e) ==
  SyncAllNext([tk EXCEPT !.results = Put(@, tk.entity, FailedResult(e))])

\* sync_entity returns to its caller.
OnReturn(tk, res) ==
  IF tk.kind = "all"
  THEN SyncAllNext([tk EXCEPT !.results = Put(@, tk.entity, res)])
  ELSE [tk EXCEPT !.pc = "done", !.outcome = "returned",
                  !.results = Put(@, tk.entity, res)]

\* sync_entity raises to its caller.
OnRaise(tk, e) ==
  IF tk.kind = "all"
  THEN SyncAllCatch(tk, e)
  ELSE [tk EXCEPT !.pc = "done", !.outcome = "raised", !.err = e]

CountRows(tbl, c, e) ==
  Cardinality({r \in tbl : r.table = e /\ r.connection_id = c})

\* --------------------------------------------------------------- actions
\* The data lake changes (outside the program).  A change is taken when a
\* read of the table is about to happen: one that no read follows before
\* the next change is not observable.
SetSource(e) ==
  /\ envChanges < MaxEnvChanges
  /\ \E t \in Tasks : tasks[t].pc = "dispatch" /\ tasks[t].entity = e
  /\ \E s \in {[up |-> TRUE, rows |-> m] : m \in SourceMenu}
            \cup {[up |-> FALSE, rows |-> source[e].rows]} :
       /\ s # source[e]
       /\ source' = [source EXCEPT ![e] = s]
  /\ envChanges' = envChanges + 1
  /\ UNCHANGED <<connections, sync_history, tables, tasks, clock, runlog>>
  /\ UNCHANGED sideVars

\* PUT /connections/{id} with one enable flag in the body (taken while a
\* task that would read the flags can still start; c2 keeps its defaults).
update_connection(c, f) ==
  /\ envChanges < MaxEnvChanges
  /\ c = "c1"
  /\ \E t \in Tasks : tasks[t].pc = "idle"
  /\ connections' = [connections EXCEPT ![c].flags =
                       IF f \in @ THEN @ \ {f} ELSE @ \cup {f}]
  /\ envChanges' = envChanges + 1
  /\ UNCHANGED <<sync_history, tables, source, tasks, clock, runlog>>
  /\ UNCHANGED sideVars

RECURSIVE SumInvoked(_)
SumInvoked(n) ==
  IF n = 0 THEN 0
  ELSE Len(tasks[n].invoked) + Len(tasks[n].queue) + SumInvoked(n - 1)

\* Tasks start in the order of their numbers and the first one syncs c1
\* (the connections are interchangeable); n more runs fit the bound.
CanStart(t, c, n) ==
  /\ tasks[t].pc = "idle"
  /\ \A u \in Tasks : u < t => tasks[u].pc # "idle"
  /\ t = 1 => c = "c1"
  /\ SumInvoked(2) + n <= MaxRuns

\* _run_sync_in_background: load the connection, call sync_all, which
\* reads the three flags into entity_flags and enters its loop.
StartSyncAll(t, c) ==
  /\ CanStart(t, c, Cardinality(connections[c].flags \cap EntityMap))
  /\ tasks' = [tasks EXCEPT ![t] =
       SyncAllNext([IdleTask EXCEPT
         !.kind = "all", !.conn = c, !.flags = connections[c].flags,
         !.seen = connections[c], !.has_count = HasCount(c),
         !.results = EmptyFn,
         !.queue = SelectSeq(EntityOrder,
                             LAMBDA e : e \in connections[c].flags)])]
  /\ UNCHANGED <<connections, sync_history, tables, source, clock,
                 envChanges, runlog>>
  /\ UNCHANGED sideVars

\* A call of PMSSyncService.sync_entity for one entity type: the endpoint's
\* background task (which admits the three types of valid_entities), or
\* another caller of the service, whose entity_type is any string.
StartSyncEntity(t, c, e) ==
  /\ CanStart(t, c, 1)
  /\ tasks' = [tasks EXCEPT ![t] =
       [IdleTask EXCEPT !.kind = "entity", !.conn = c, !.pc = "create",
                        !.flags = connections[c].flags,
                        !.seen = connections[c],
                        !.has_count = HasCount(c),
                        !.results = EmptyFn,
                        !.entity = e, !.invoked = <<e>>]]
  /\ UNCHANGED <<connections, sync_history, tables, source, clock,
                 envChanges, runlog>>
  /\ UNCHANGED sideVars

\* sync_entity called on a session left rolled back by a failed commit:
\* building the history row reads connection.id, the expired attribute has
\* to be loaded, and the session refuses the load; the call raises before
\* its try block and before any row exists.
SyncEntityExpired(t) ==
  LET tk == tasks[t]
  IN /\ tk.pc = "create"
     /\ tk.expired
     /\ tasks' = [tasks EXCEPT ![t] = OnRaise(tk, ErrPendingRollback)]
     /\ UNCHANGED <<connections, sync_history, tables, source, clock,
                    envChanges, runlog>>
     /\ UNCHANGED sideVars

\* sync_entity, entry: the RUNNING history row is added and committed.
SyncEntityCreate(t) ==
  LET tk == tasks[t]
      id == <<t, Len(tk.invoked)>>
  IN /\ tk.pc = "create"
     /\ ~tk.expired
     /\ sync_history' = CommitNewHistory(sync_history,
                                         RunningRow(tk, id, clock))
     /\ runlog' = Put(runlog, id,
          [task |-> t, conn |-> tk.conn, entity |-> tk.entity,
           started |-> clock, ended |-> Null, readDone |-> FALSE,
           readFailed |-> FALSE, df |-> <<>>, raised |-> Null,
           fnStats |-> Null, countAfter |-> 0, outcome |-> Null,
           exc |-> Null, now |-> Null, batches |-> <<>>])
     /\ tasks' = [tasks EXCEPT ![t] =
          [tk EXCEPT !.pc = "dispatch", !.hid = id, !.df = <<>>,
                     !.pos = 1, !.stats = ZeroStats, !.pending = <<>>,
                     !.aborted = FALSE, !.err = Null, !.fnow = 0]]
     /\ UNCHANGED <<connections, tables, source, clock, envChanges>>
     /\ UNCHANGED sideVars

\* sync_entity, try block up to the call of sync_fn, and sync_fn up to its
\* row loop: entity_map lookup, then the source read.
SyncEntityDispatch(t) ==
  LET tk == tasks[t]
      rd == ReadSource(tk.entity)
  IN /\ tk.pc = "dispatch"
     /\ IF tk.entity \notin EntityMap
        THEN /\ tasks' = [tasks EXCEPT ![t] =
                  [tk EXCEPT !.pc = "except", !.err = ErrUnknown]]
             /\ runlog' = [runlog EXCEPT ![tk.hid].raised = ErrUnknown]
        ELSE /\ tasks' = [tasks EXCEPT ![t] =
                  [tk EXCEPT !.pc = "loop", !.df = rd.df, !.fnow = clock]]
             /\ runlog' = [runlog EXCEPT ![tk.hid].readDone = TRUE,
                                         ![tk.hid].readFailed = rd.failed,
                                         ![tk.hid].df = rd.df,
                                         ![tk.hid].now = clock]
     /\ UNCHANGED <<connections, sync_history, tables, source, clock,
                    envChanges>>
     /\ UNCHANGED sideVars

\* sync_fn: collect the next batch and upsert it (_upsert_*: one statement
\* per record, then db.commit()); at the end of the frame, return stats.
SyncFnBatch(t) ==
  LET tk == tasks[t]
      f == Fill(tk, tk.pos, <<>>, tk.stats)
      k == FirstFault(f.batch)
  IN /\ tk.pc = "loop"
     /\ IF f.batch = <<>>
        THEN /\ tasks' = [tasks EXCEPT ![t] =
                  [tk EXCEPT !.pc = "finalize", !.pos = f.pos,
                             !.stats = f.stats]]
             /\ UNCHANGED <<tables, runlog>>
        ELSE IF k = 0
        THEN /\ tables' = ApplyAll(tables, f.batch)
             /\ tasks' = [tasks EXCEPT ![t] =
                  [tk EXCEPT !.pc = IF f.pos > Len(tk.df)
                                    THEN "finalize" ELSE "loop",
                             !.pos = f.pos,
                             !.stats = [f.stats EXCEPT !.records_updated =
                                          @ + Len(f.batch)]]]
             /\ runlog' = [runlog EXCEPT ![tk.hid].batches =
                             Append(@, [i \in 1..Len(f.batch) |->
                                          f.batch[i].id[2]])]
        ELSE /\ tasks' = [tasks EXCEPT ![t] =
                  [tk EXCEPT !.pc = "except", !.pos = f.pos,
                             !.stats = f.stats,
                             !.pending = SubSeq(f.batch, 1, k - 1),
                             !.aborted = (f.batch[k].fault = "constraint"),
                             !.err = FaultText(f.batch[k].fault)]]
             /\ runlog' = [runlog EXCEPT ![tk.hid].raised =
                             FaultText(f.batch[k].fault)]
             /\ UNCHANGED tables
     /\ UNCHANGED <<connections, sync_history, source, clock, envChanges>>
     /\ UNCHANGED sideVars

\* sync_entity, after sync_fn returned: history row and connection are
\* updated and committed together; the result dict is returned.
SyncEntityFinalize(t) ==
  LET tk == tasks[t]
  IN /\ tk.pc = "finalize"
     /\ clock' = clock + 1
     /\ sync_history' = [id \in DOMAIN sync_history |->
          IF id \in TargetRows(sync_history, tk)
          THEN CompletedRow(sync_history[id], tk.stats, clock')
          ELSE sync_history[id]]
     /\ connections' = [connections EXCEPT ![tk.conn] =
          FlushConnection(@, tk, ConnSuccess(tk.seen, tk.stats, clock'),
                          TRUE)]
     /\ runlog' = [runlog EXCEPT
          ![tk.hid].ended = clock', ![tk.hid].fnStats = tk.stats,
          ![tk.hid].countAfter = CountRows(tables, tk.conn, tk.entity),
          ![tk.hid].outcome = "returned"]
     /\ tasks' = [tasks EXCEPT ![t] =
          OnReturn([tk EXCEPT
                      !.seen = ConnSuccess(tk.seen, tk.stats, clock'),
                      !.has_count = TRUE],
                   SuccessResult(tk.stats))]
     /\ UNCHANGED <<tables, source, envChanges>>
     /\ UNCHANGED sideVars

\* sync_entity, except block: the row and the connection are marked FAILED
\* and committed, then the exception is re-raised.  The commit also makes
\* durable what the session executed before the failure.  In a transaction
\* the server has aborted, the commit itself raises: nothing is written and
\* the commit's exception is the one that leaves sync_entity.
SyncEntityExcept(t) ==
  LET tk == tasks[t]
      tbl == ApplyAll(tables, tk.pending)
  IN /\ tk.pc = "except"
     /\ clock' = clock + 1
     /\ IF tk.aborted
        THEN /\ tasks' = [tasks EXCEPT ![t] =
                  OnRaise(AfterFailedCommit(tk), ErrAborted)]
             /\ runlog' = [runlog EXCEPT
                  ![tk.hid].ended = clock',
                  ![tk.hid].countAfter =
                     CountRows(tables, tk.conn, tk.entity),
                  ![tk.hid].outcome = "raised",
                  ![tk.hid].exc = ErrAborted]
             /\ UNCHANGED <<sync_history, connections, tables>>
        ELSE /\ tables' = tbl
             /\ sync_history' = [id \in DOMAIN sync_history |->
                  IF id \in TargetRows(sync_history, tk)
                  THEN FailedRow(sync_history[id], tk.err,
                                 StatsAtFailure(tk), clock')
                  ELSE sync_history[id]]
             /\ connections' = [connections EXCEPT ![tk.conn] =
                  FlushConnection(@, tk,
                                  ConnFailure(tk.seen, tk.err, clock'),
                                  FALSE)]
             /\ runlog' = [runlog EXCEPT
                  ![tk.hid].ended = clock',
                  ![tk.hid].countAfter = CountRows(tbl, tk.conn, tk.entity),
                  ![tk.hid].outcome = "raised",
                  ![tk.hid].exc = tk.err]
             /\ tasks' = [tasks EXCEPT ![t] =
                  OnRaise([tk EXCEPT
                             !.pending = <<>>,
                             !.seen = ConnFailure(tk.seen, tk.err, clock')],
                          tk.err)]
     /\ UNCHANGED <<source, envChanges>>
     /\ UNCHANGED sideVars

Next ==
  \/ \E e \in EntityMap : SetSource(e)
  \/ \E c \in Conns, f \in FlagNames : update_connection(c, f)
  \/ \E t \in Tasks, c \in Conns : StartSyncAll(t, c)
  \/ \E t \in Tasks, c \in Conns, e \in RequestTypes : StartSyncEntity(t, c, e)
  \/ \E t \in Tasks : SyncEntityExpired(t)
  \/ \E t \in Tasks : SyncEntityCreate(t)
  \/ \E t \in Tasks : SyncEntityDispatch(t)
  \/ \E t \in Tasks : SyncFnBatch(t)
  \/ \E t \in Tasks : SyncEntityFinalize(t)
  \/ \E t \in Tasks : SyncEntityExcept(t)

Spec == Init /\ [][Next]_vars

\* ---------------------------------------------------------------- claims
Terminal == {"COMPLETED", "FAILED"}
Ended(id) == runlog[id].outcome # Null
RunIds == DOMAIN runlog
RowsOfTask(t) == {id \in DOMAIN sync_history : id[1] = t}
Working == {"dispatch", "loop", "finalize", "except"}

\* C1: a Sync History row only ever goes RUNNING -> COMPLETED or
\* RUNNING -> FAILED, and a row that is COMPLETED or FAILED is never changed
\* again, whatever runs, fails or overlaps afterwards.
C1_HistoryTerminality ==
  [][\A id \in DOMAIN sync_history :
       /\ id \in DOMAIN sync_history'
       /\ sync_history'[id].status # sync_history[id].status =>
            /\ sync_history[id].status = "RUNNING"
            /\ sync_history'[id].status \in Terminal
       /\ sync_history[id].status \in Terminal =>
            sync_history'[id] = sync_history[id]]_vars

\* A FAILED and a COMPLETED row of one connection and scope, the second
\* ended after the first.
C1_Witness ==
  \E a, b \in DOMAIN sync_history :
    /\ sync_history[a].status = "FAILED"
    /\ sync_history[b].status = "COMPLETED"
    /\ sync_history[a].connection_id = sync_history[b].connection_id
    /\ sync_history[a].sync_scope = sync_history[b].sync_scope
    /\ sync_history[a].completed_at < sync_history[b].completed_at

\* C2: every sync_entity invocation has exactly one history row, committed
\* in status RUNNING before the invocation reads the source or writes a
\* canonical record, and still RUNNING while it works; sync_all makes one
\* such row per enabled entity type and none for a disabled one.
C2_HistoryRowFirstAsClaimed ==
  /\ \A t \in Tasks :
       LET tk == tasks[t] IN
       /\ tk.pc \in Working =>
            /\ tk.hid \in DOMAIN sync_history
            /\ sync_history[tk.hid].status = "RUNNING"
            /\ sync_history[tk.hid].connection_id = tk.conn
            /\ sync_history[tk.hid].sync_scope = tk.entity
       /\ Cardinality(RowsOfTask(t)) =
            Len(tk.invoked) - (IF tk.pc = "create" THEN 1 ELSE 0)
       /\ \A a, b \in RowsOfTask(t) :
            sync_history[a].sync_scope = sync_history[b].sync_scope => a = b
       /\ tk.kind = "all" =>
            /\ \A id \in RowsOfTask(t) :
                 sync_history[id].sync_scope \in tk.flags \cap EntityMap
            /\ tk.pc = "done" =>
                 {sync_history[id].sync_scope : id \in RowsOfTask(t)}
                   = tk.flags \cap EntityMap
  /\ \A id \in RunIds :
       runlog[id].readDone => id \in DOMAIN sync_history
  /\ \A r \in tables : r.id[1] \in DOMAIN sync_history

\* Rows of the frame a run read: those with a key, those whose write fails.
Keyed(df) == {i \in 1..Len(df) : df[i].ext # 0}
Faulty(df) == {i \in Keyed(df) : df[i].fault # "none"}
Stored(c, e, k) ==
  \E r \in tables : r.table = e /\ r.connection_id = c /\ r.external_id = k

\* C3: whenever something raised inside a sync_entity run (unknown entity
\* type, source read error, upsert error), once the run is over its history
\* row is FAILED with the exception text and sync_entity has raised.
C3_FailurePathAsClaimed ==
  \A id \in RunIds :
    (Ended(id) /\ (runlog[id].raised # Null \/ runlog[id].readFailed)) =>
      /\ sync_history[id].status = "FAILED"
      /\ sync_history[id].error_message # Null
      /\ runlog[id].raised # Null =>
           sync_history[id].error_message = runlog[id].raised
      /\ runlog[id].outcome = "raised"

\* C4: a run whose entity sync function returned has its history row
\* COMPLETED with the five counts the function returned and completed_at
\* set; the commit that completes the row also sets the connection's
\* last_sync_status = COMPLETED, last_sync_error = null,
\* last_sync_records_count = records_processed, last_sync_at = completed_at.
C4_SuccessPathAsClaimed ==
  /\ [](\A id \in RunIds :
          /\ runlog[id].outcome = "returned" =>
               /\ sync_history[id].status = "COMPLETED"
               /\ sync_history[id].counts = runlog[id].fnStats
               /\ sync_history[id].counts.records_processed
                    = Cardinality(Keyed(runlog[id].df))
               /\ sync_history[id].counts.records_skipped
                    = Len(runlog[id].df) - Cardinality(Keyed(runlog[id].df))
               /\ sync_history[id].completed_at = runlog[id].ended
          /\ sync_history[id].status = "COMPLETED" =>
               runlog[id].outcome = "returned")
  /\ [][\A id \in DOMAIN sync_history :
          (sync_history[id].status = "RUNNING"
           /\ sync_history'[id].status = "COMPLETED") =>
            LET cn == connections'[sync_history[id].connection_id] IN
            /\ cn.last_sync_status = "COMPLETED"
            /\ cn.last_sync_error = Null
            /\ cn.last_sync_records_count
                 = sync_history'[id].counts.records_processed
            /\ cn.last_sync_at = sync_history'[id].completed_at]_vars

\* The run of entity type e made by task t, if the call got as far as its
\* history row.
HasRun(t, e) == \E id \in RunIds : id[1] = t /\ runlog[id].entity = e
RunOf(t, e) == CHOOSE id \in RunIds : id[1] = t /\ runlog[id].entity = e

\* C5: sync_all never raises; whatever subset of the enabled entity types
\* fails, sync_entity is invoked for every enabled type, in order, and the
\* result maps each failed type to a failed status with the text of the
\* exception and every other enabled type to its own result.  A call that
\* raised before creating its history row has no run; its entry carries
\* the text of that exception.
C5_SyncAllIsolation ==
  \A t \in Tasks :
    LET tk == tasks[t] IN
    tk.kind = "all" =>
      /\ tk.outcome # "raised"
      /\ tk.pc = "done" =>
           /\ tk.outcome = "returned"
           /\ tk.invoked = SelectSeq(EntityOrder, LAMBDA e : e \in tk.flags)
           /\ DOMAIN tk.results = tk.flags \cap EntityMap
           /\ \A e \in DOMAIN tk.results :
                IF HasRun(t, e)
                THEN LET id == RunOf(t, e) IN
                     /\ Ended(id)
                     /\ runlog[id].outcome = "raised" =>
                          tk.results[e] = FailedResult(runlog[id].exc)
                     /\ runlog[id].outcome = "returned" =>
                          tk.results[e] = SuccessResult(runlog[id].fnStats)
                ELSE tk.results[e] = FailedResult(ErrPendingRollback)

\* A finished sync_all whose first entity type failed and whose later ones
\* succeeded.
C5_Witness ==
  \E t \in Tasks :
    /\ tasks[t].kind = "all"
    /\ tasks[t].pc = "done"
    /\ DOMAIN tasks[t].results = EntityMap
    /\ tasks[t].results["patients"].status = "failed"
    /\ tasks[t].results["appointments"].status = "success"
    /\ tasks[t].results["providers"].status = "success"

\* C6: the result of sync_all has a key for an entity type that has an
\* enable flag on the connection if and only if that flag is true.
C6_FlagsGateAsClaimed ==
  \A t \in Tasks :
    (tasks[t].kind = "all" /\ tasks[t].pc = "done") =>
      \A f \in FlagNames : f \in DOMAIN tasks[t].results <=> f \in tasks[t].flags

\* C7: a run whose frame holds k records whose write fails is not failed by
\* them: it completes, persists every valid record of the frame and reports
\* records_failed = k.
C7_RecordIsolationAsClaimed ==
  \A id \in RunIds :
    (Ended(id) /\ Faulty(runlog[id].df) # {}) =>
      /\ sync_history[id].status = "COMPLETED"
      /\ sync_history[id].counts.records_failed
           = Cardinality(Faulty(runlog[id].df))
      /\ \A i \in Keyed(runlog[id].df) \ Faulty(runlog[id].df) :
           Stored(runlog[id].conn, runlog[id].entity, runlog[id].df[i].ext)

\* C8: a run during which the source could not be read ends FAILED with an
\* error message, never COMPLETED.
C8_SourceUnreachableAsClaimed ==
  \A id \in RunIds :
    (Ended(id) /\ runlog[id].readFailed) =>
      /\ sync_history[id].status = "FAILED"
      /\ sync_history[id].status # "COMPLETED"
      /\ sync_history[id].error_message # Null

\* Two runs of one connection and entity type, the second started after the
\* first ended, that read the same source data, with no other run of that
\* connection and entity type overlapping them.
InARow(a, b) ==
  /\ a # b
  /\ runlog[a].conn = runlog[b].conn
  /\ runlog[a].entity = runlog[b].entity
  /\ Ended(a) /\ Ended(b)
  /\ runlog[a].ended <= runlog[b].started
  /\ runlog[a].readDone /\ runlog[b].readDone
  /\ runlog[a].df = runlog[b].df
  /\ runlog[a].readFailed = runlog[b].readFailed
  /\ \A x \in RunIds \ {a, b} :
       (runlog[x].conn = runlog[a].conn /\ runlog[x].entity = runlog[a].entity)
         => /\ Ended(x)
            /\ \/ runlog[x].ended <= runlog[a].started
               \/ runlog[b].ended <= runlog[x].started

\* C9: of two sync_entity runs in a row over unchanged source data, the
\* second leaves the number of canonical records where the first left it
\* and reports records_created = 0.
C9_Idempotence ==
  \A a, b \in RunIds :
    InARow(a, b) =>
      /\ runlog[b].countAfter = runlog[a].countAfter
      /\ runlog[b].outcome = "returned" =>
           sync_history[b].counts.records_created = 0

\* Two completed runs in a row over the same non-empty data.
C9_Witness ==
  \E a, b \in RunIds :
    /\ InARow(a, b)
    /\ runlog[a].outcome = "returned"
    /\ runlog[b].outcome = "returned"
    /\ runlog[a].countAfter >= 2
    /\ sync_history[b].counts.records_updated >= 2

KeyOf(r) == <<r.table, r.connection_id, r.external_id>>

\* C10: each entity table holds at most one record per (connection id,
\* external id), under every interleaving of syncs; a stored record keeps
\* its identity when a later sync writes the same external id.
C10_Uniqueness ==
  /\ [](\A r, q \in tables : KeyOf(r) = KeyOf(q) => r = q)
  /\ [][\A r \in tables :
          \E q \in tables' : q.id = r.id /\ KeyOf(q) = KeyOf(r)]_vars

\* Two overlapping completed runs of one connection and entity type, the
\* later one having updated a record the earlier one inserted.
C10_Witness ==
  \E a, b \in RunIds :
    /\ a # b
    /\ runlog[a].conn = runlog[b].conn
    /\ runlog[a].entity = runlog[b].entity
    /\ runlog[a].outcome = "returned" /\ runlog[b].outcome = "returned"
    /\ runlog[b].started < runlog[a].ended
    /\ runlog[a].ended < runlog[b].ended
    /\ runlog[a].countAfter >= 2
    /\ \E r \in tables : r.id[1] = a /\ r.table = runlog[a].entity

CeilDiv(n, b) == (n + b - 1) \div b

\* C11: a run over N valid records without failures makes exactly
\* ceil(N / BATCH_SIZE) upsert commits, every batch is full except a last
\* one of N mod BATCH_SIZE records when that is not zero, every record is
\* in exactly one batch, and records_created + records_updated = N.
C11_Batching ==
  \A id \in RunIds :
    runlog[id].outcome = "returned" =>
      LET df == runlog[id].df
          N == Cardinality(Keyed(df))
          bs == runlog[id].batches
      IN /\ Faulty(df) = {}
         /\ Len(bs) = CeilDiv(N, BATCH_SIZE)
         /\ \A j \in 1..Len(bs) :
              Len(bs[j]) = IF j < Len(bs) \/ N % BATCH_SIZE = 0
                           THEN BATCH_SIZE ELSE N % BATCH_SIZE
         /\ \A j \in 1..Len(bs) : \A k \in 1..Len(bs[j]) :
              bs[j][k] \in Keyed(df)
         /\ \A i \in Keyed(df) :
              Cardinality({jk \in (1..Len(bs)) \X (1..BATCH_SIZE) :
                             /\ jk[2] <= Len(bs[jk[1]])
                             /\ bs[jk[1]][jk[2]] = i}) = 1
         /\ sync_history[id].counts.records_created
              + sync_history[id].counts.records_updated = N

\* A completed run whose frame needed a full batch and a shorter last one,
\* and another whose frame filled its only batch exactly.
C11_Witness ==
  \E a, b \in RunIds :
    /\ runlog[a].outcome = "returned"
    /\ Len(runlog[a].batches) >= 2
    /\ Len(runlog[a].batches[Len(runlog[a].batches)]) < BATCH_SIZE
    /\ Len(runlog[a].batches[1]) = BATCH_SIZE
    /\ runlog[b].outcome = "returned"
    /\ Len(runlog[b].batches) = 1
    /\ Len(runlog[b].batches[1]) = BATCH_SIZE

\* The task t is executing writes and its frame lists the key of stored
\* record r.
WritesKey(t, r) ==
  /\ tasks[t].pc \in {"loop", "except"}
  /\ tasks[t].conn = r.connection_id
  /\ tasks[t].entity = r.table
  /\ \E i \in 1..Len(tasks[t].df) : tasks[t].df[i].ext = r.external_id

\* .. in a frame row carrying value v.
Writes(t, r, v) ==
  /\ WritesKey(t, r)
  /\ \E i \in 1..Len(tasks[t].df) :
       tasks[t].df[i].ext = r.external_id /\ tasks[t].df[i].val = v

\* C12: an upsert that hits a stored (connection id, external id) record
\* keeps its id, key and first_synced_at and overwrites its business
\* fields and last_synced_at with those of the incoming record; so
\* first_synced_at is always the timestamp of the sync that inserted it.
C12_MergePolicy ==
  /\ [](\A r \in tables :
          /\ r.id[1] \in RunIds
          /\ r.first_synced_at = runlog[r.id[1]].now)
  /\ [][\A r \in tables : \A q \in tables' :
          KeyOf(q) = KeyOf(r) =>
            /\ q.id = r.id
            /\ q.first_synced_at = r.first_synced_at
            /\ q # r => \E t \in Tasks :
                 /\ Writes(t, r, q.val)
                 /\ q.last_synced_at = tasks[t].fnow]_vars

\* A record inserted by one sync and overwritten by a later one with a new
\* value: it still carries the first sync's timestamp.
C12_Witness ==
  \E r \in tables :
    /\ r.first_synced_at < r.last_synced_at
    /\ r.val = 2
    /\ runlog[r.id[1]].df[r.id[2]].val = 1
    /\ \E b \in RunIds : /\ b # r.id[1]
                         /\ runlog[b].outcome = "returned"
                         /\ runlog[b].now = r.last_synced_at

StoredKeys == {KeyOf(r) : r \in tables}

\* C13: no step of a sync removes a stored record: the set of stored
\* (connection id, external id) keys only grows, and a record whose
\* external id is not in the frame of the task taking the step is left
\* exactly as it was.
C13_NoDeletion ==
  [][/\ StoredKeys \subseteq {KeyOf(q) : q \in tables'}
     /\ \A r \in tables :
          r \in tables' \/ \E t \in Tasks : WritesKey(t, r)
    ]_vars

\* A record stored by a first sync whose external id the source no longer
\* lists when a second sync of the same connection and table completes.
C13_Witness ==
  \E r \in tables : \E b \in RunIds :
    /\ b # r.id[1]
    /\ runlog[b].conn = r.connection_id
    /\ runlog[b].entity = r.table
    /\ runlog[b].outcome = "returned"
    /\ Ended(r.id[1])
    /\ runlog[r.id[1]].ended <= runlog[b].started
    /\ Keyed(runlog[b].df) # {}
    /\ \A i \in 1..Len(runlog[b].df) : runlog[b].df[i].ext # r.external_id
    /\ r.last_synced_at = runlog[r.id[1]].now

\* C14: once a sync_entity call has returned or raised, the Sync History
\* row it created is COMPLETED or FAILED, not RUNNING (no later step
\* changes the row of a finished call, so a row then RUNNING stays so).
C14_RunCompletionAsClaimed ==
  \A id \in RunIds :
    Ended(id) => /\ id \in DOMAIN sync_history
                 /\ sync_history[id].status \in Terminal

\* ------------------------------------------------ scope resolution
\* The connection fields _resolve_soe_integration_id reads, the catalog
\* soe.soe_integrations, and a frame read from the data lake.
PracticeIds == {Null, "", "P1", "I3"}
IntegrationNames == {"", "IntA", "IntB"}
CatalogRows ==
  { [integration_id |-> "I1", integration_name |-> "IntA"],
    [integration_id |-> "I2", integration_name |-> "IntA"],
    [integration_id |-> "I3", integration_name |-> "IntC"] }
FrameRows ==
  << [ext |-> 1, integration_id |-> "P1"],
     [ext |-> 2, integration_id |-> "I1"],
     [ext |-> 3, integration_id |-> "I3"],
     [ext |-> 4, integration_id |-> "I1"] >>

\* Python truthiness of an Optional[str].
Truthy(x) == x # Null /\ x # ""

Matches(cn, catalog) ==
  {m \in catalog : m.integration_name = cn.integration_name}

\* The catalog is asked first, the connection's own id only on a miss.
resolve_CatalogFirst(cn, catalog, ok) ==
  IF Truthy(cn.integration_name) /\ ok /\ Matches(cn, catalog) # {}
  THEN {m.integration_id : m \in Matches(cn, catalog)}
  ELSE IF Truthy(cn.external_practice_id)
  THEN {cn.external_practice_id}
  ELSE {Null}

\* _resolve_soe_integration_id: the values it can return (SELECT .. LIMIT 1
\* returns any one matching row; `ok` is false when the query raises, which
\* the function swallows).
resolve_soe_integration_id(cn, catalog, ok) ==
  IF Truthy(cn.external_practice_id)
  THEN {cn.external_practice_id}
  ELSE IF Truthy(cn.integration_name) /\ ok /\ Matches(cn, catalog) # {}
  THEN {m.integration_id : m \in Matches(cn, catalog)}
  ELSE {Null}

\* Whether the function executes the catalog query.
ConsultsCatalog(cn) ==
  ~Truthy(cn.external_practice_id) /\ Truthy(cn.integration_name)

\* get_soe_data: the frame, filtered by integration_id if one is given and
\* the frame is not empty and has the column.
get_soe_data(rows, has_column, integration_id) ==
  IF rows # <<>> /\ Truthy(integration_id) /\ has_column
  THEN SelectSeq(rows, LAMBDA r : r.integration_id = integration_id)
  ELSE rows

ScopeInit ==
  /\ PmsInit /\ xero = Off /\ dates = Off /\ LateOff
  /\ scope \in [pc : {"resolve"},
                cn : [external_practice_id : PracticeIds,
                      integration_name : IntegrationNames],
                catalog : SUBSET CatalogRows,
                ok : BOOLEAN,
                rows : {<<>>, FrameRows},
                has_column : BOOLEAN,
                integration_id : {Null},
                consulted : {FALSE},
                df : {<<>>}]

\* integration_id = await self._resolve_soe_integration_id(db, connection)
ScopeResolve ==
  /\ scope.pc = "resolve"
  /\ \E id \in resolve_soe_integration_id(scope.cn, scope.catalog, scope.ok) :
       scope' = [scope EXCEPT !.pc = "read", !.integration_id = id,
                              !.consulted = ConsultsCatalog(scope.cn)]
  /\ UNCHANGED <<pmsVars, xero, dates, lateVars>>

\* df = azure_blob_service.get_soe_data(table, integration_id=integration_id)
ScopeRead ==
  /\ scope.pc = "read"
  /\ scope' = [scope EXCEPT !.pc = "done",
                 !.df = get_soe_data(scope.rows, scope.has_column,
                                     scope.integration_id)]
  /\ UNCHANGED <<pmsVars, xero, dates, lateVars>>

ScopeNext == ScopeResolve \/ ScopeRead
SpecScope == ScopeInit /\ [][ScopeNext]_vars

MaxTime == 4             \* how long the adapter is observed
MaxN == 5                \* records at the source
PAGE_SIZE == 2           \* xero.py:471 compares with 100; scaled down
RefreshBuffer == 1       \* timedelta(minutes=5)
Lifetimes == {1, 3}      \* expires_in of a token response, in time units

NoTokens ==
  [present |-> FALSE, access_token |-> 0, refresh_token |-> FALSE,
   has_expiry |-> FALSE, expires_at |-> 0]

ErrNotAuthenticated == "Not authenticated with Xero"
ErrRefreshFailed == "Token refresh failed"
ErrApiRequest == "API request failed"

\* tokens = response.json(); tokens["expires_at"] = now + expires_in
TokenResponse(id, now, life, with_refresh) ==
  [present |-> TRUE, access_token |-> id, refresh_token |-> with_refresh,
   has_expiry |-> TRUE, expires_at |-> now + life]

\* get_valid_token: access 0 stands for None.  A token that is due and has
\* a refresh token is refreshed (refresh_access_token stores the response,
\* or raises); a token that is due and has none is returned as it is.
get_valid_token(tokens, now, refresh_ok, id, life) ==
  IF ~tokens.present
  THEN [tokens |-> tokens, access |-> 0, refreshed |-> FALSE, error |-> Null]
  ELSE IF /\ tokens.has_expiry
          /\ now >= tokens.expires_at - RefreshBuffer
          /\ tokens.refresh_token
  THEN IF refresh_ok
       THEN [tokens |-> TokenResponse(id, now, life, TRUE), access |-> id,
             refreshed |-> TRUE, error |-> Null]
       ELSE [tokens |-> tokens, access |-> 0, refreshed |-> FALSE,
             error |-> ErrRefreshFailed]
  ELSE [tokens |-> tokens, access |-> tokens.access_token,
        refreshed |-> FALSE, error |-> Null]

\* The API's verdict on a bearer token: one past its expiry is rejected.
ServerAccepts(tokens, now) ==
  ~(tokens.has_expiry /\ now >= tokens.expires_at)

\* _api_request: the token step, then the request and the status check.
api_request(tokens, now, refresh_ok, id, life) ==
  LET v == get_valid_token(tokens, now, refresh_ok, id, life)
  IN IF v.error # Null
     THEN [v EXCEPT !.access = 0] @@ [sent |-> FALSE, ok |-> FALSE]
     ELSE IF v.access = 0
     THEN [v EXCEPT !.error = ErrNotAuthenticated]
            @@ [sent |-> FALSE, ok |-> FALSE]
     ELSE IF ServerAccepts(v.tokens, now)
     THEN v @@ [sent |-> TRUE, ok |-> TRUE]
     ELSE [v EXCEPT !.error = ErrApiRequest] @@ [sent |-> TRUE, ok |-> FALSE]

Min(a, b) == IF a < b THEN a ELSE b

\* The API serves the records 1..n, PAGE_SIZE to a page: page `cursor`
\* (Contacts and the like), or the records after number `cursor` (Journals).
ServerPage(mode, n, cursor) ==
  LET from == IF mode = "page" THEN (cursor - 1) * PAGE_SIZE ELSE cursor
      len == IF n > from THEN Min(PAGE_SIZE, n - from) ELSE 0
  IN [i \in 1..len |-> from + i]

\* The loop body that forgets a short page.
PageLoop_DropShort(mode, all, cursor, got) ==
  IF Len(got) < PAGE_SIZE
  THEN [pc |-> "done", all |-> all, cursor |-> cursor]
  ELSE [pc |-> "loop", all |-> all \o got,
        cursor |-> cursor + (IF mode = "page" THEN 1 ELSE Len(got))]

\* The body of the `while True` loops of sync_contacts (page) and
\* sync_journals (offset) after the fetch.
PageLoop(mode, all, cursor, got) ==
  IF got = <<>>
  THEN [pc |-> "done", all |-> all, cursor |-> cursor]
  ELSE IF Len(got) < PAGE_SIZE
  THEN [pc |-> "done", all |-> all \o got,
        cursor |-> IF mode = "page" THEN cursor ELSE cursor + Len(got)]
  ELSE [pc |-> "loop", all |-> all \o got,
        cursor |-> cursor + (IF mode = "page" THEN 1 ELSE Len(got))]

NoRequest ==
  [asked |-> FALSE, cached |-> FALSE, due |-> FALSE, expired |-> FALSE,
   refreshable |-> FALSE, refresh_ok |-> FALSE, refreshed |-> FALSE,
   sent |-> FALSE, old_access |-> 0, access |-> 0, error |-> Null]

XeroInit ==
  /\ PmsInit /\ scope = Off /\ dates = Off /\ LateOff
  /\ xero = [pc |-> "idle", tokens |-> NoTokens, now |-> 0, issued |-> 0,
             mode |-> "page", n |-> 0, cursor |-> 0, all |-> <<>>,
             requests |-> <<>>, pages |-> <<>>, last |-> NoRequest,
             error |-> Null]

\* exchange_code_for_tokens after the OAuth callback, or set_tokens with
\* the token record restored from the database.
XeroSetTokens ==
  /\ ~xero.tokens.present
  /\ \E with_refresh \in BOOLEAN, has_expiry \in BOOLEAN, life \in Lifetimes :
       xero' = [xero EXCEPT
         !.issued = @ + 1,
         !.tokens = [TokenResponse(xero.issued + 1, xero.now, life,
                                   with_refresh)
                       EXCEPT !.has_expiry = has_expiry]]
  /\ UNCHANGED <<pmsVars, scope, dates, lateVars>>

\* Time passes.
XeroTick ==
  /\ xero.now < MaxTime
  /\ xero.pc \in {"idle", "loop"}
  /\ xero' = [xero EXCEPT !.now = @ + 1]
  /\ UNCHANGED <<pmsVars, scope, dates, lateVars>>

\* sync_contacts / sync_journals up to the loop: page = 1 / offset = 0.
XeroStartFetch(mode, n) ==
  /\ xero.pc = "idle"
  /\ xero' = [xero EXCEPT !.pc = "loop", !.mode = mode, !.n = n,
                          !.cursor = IF mode = "page" THEN 1 ELSE 0]
  /\ UNCHANGED <<pmsVars, scope, dates, lateVars>>

\* One turn of the loop: get_contacts(page) / get_journals(offset) through
\* _api_request, then the loop body; an exception leaves the loop.
XeroFetchPage ==
  /\ xero.pc = "loop"
  /\ \E refresh_ok \in BOOLEAN, life \in Lifetimes :
       LET tk == xero.tokens
           r == api_request(tk, xero.now, refresh_ok, xero.issued + 1, life)
           got == ServerPage(xero.mode, xero.n, xero.cursor)
           nx == PageLoop(xero.mode, xero.all, xero.cursor, got)
           rq == [asked |-> TRUE, cached |-> tk.present,
                  due |-> tk.present /\ tk.has_expiry
                          /\ xero.now >= tk.expires_at - RefreshBuffer,
                  expired |-> tk.present /\ tk.has_expiry
                              /\ xero.now >= tk.expires_at,
                  refreshable |-> tk.present /\ tk.refresh_token,
                  refresh_ok |-> refresh_ok, refreshed |-> r.refreshed,
                  sent |-> r.sent, old_access |-> tk.access_token,
                  access |-> r.access, error |-> r.error]
       IN xero' = IF r.ok
                  THEN [xero EXCEPT
                          !.tokens = r.tokens,
                          !.issued = IF r.refreshed THEN @ + 1 ELSE @,
                          !.last = rq,
                          !.requests = Append(@, xero.cursor),
                          !.pages = Append(@, Len(got)),
                          !.pc = nx.pc, !.all = nx.all, !.cursor = nx.cursor]
                  ELSE [xero EXCEPT
                          !.tokens = r.tokens,
                          !.issued = IF r.refreshed THEN @ + 1 ELSE @,
                          !.last = rq,
                          !.requests = IF r.sent THEN Append(@, xero.cursor)
                                       ELSE @,
                          !.pc = "raised", !.error = r.error]
  /\ UNCHANGED <<pmsVars, scope, dates, lateVars>>

XeroNext ==
  \/ XeroSetTokens
  \/ XeroTick
  \/ \E mode \in {"page", "offset"}, n \in 0..MaxN : XeroStartFetch(mode, n)
  \/ XeroFetchPage
SpecXero == XeroInit /\ [][XeroNext]_vars

\* C16: a request made when the cached token is due (its expiry less the
\* buffer has passed) and refreshable is sent with a freshly issued token;
\* a request made with no cached token, or with an expired token and no
\* refresh token, is not sent and raises the authentication error.
C16_TokenValidityAsClaimed ==
  xero.last.asked =>
    LET l == xero.last IN
    /\ (l.cached /\ l.due /\ l.refreshable /\ l.refresh_ok) =>
         /\ l.refreshed
         /\ l.sent
         /\ l.access # l.old_access
         /\ l.access = xero.tokens.access_token
    /\ (~l.cached \/ (l.expired /\ ~l.refreshable)) =>
         /\ ~l.sent
         /\ l.error = ErrNotAuthenticated

RECURSIVE AloneLoop(_)
AloneLoop(tk) ==
  LET f == Fill(tk, tk.pos, <<>>, tk.stats)
      k == FirstFault(f.batch)
      st == [f.stats EXCEPT !.records_updated = @ + Len(f.batch)]
  IN IF f.batch = <<>>
     THEN [status |-> "COMPLETED", counts |-> f.stats]
     ELSE IF k # 0
     THEN IF f.batch[k].fault = "constraint"
          THEN [status |-> "RUNNING", counts |-> NullStats]
          ELSE [status |-> "FAILED",
                counts |-> [NullStats EXCEPT !.records_processed = 0]]
     ELSE IF f.pos > Len(tk.df)
     THEN [status |-> "COMPLETED", counts |-> st]
     ELSE AloneLoop([tk EXCEPT !.pos = f.pos, !.stats = st])

Alone(id) ==
  IF runlog[id].entity \notin EntityMap
  THEN [status |-> "FAILED",
        counts |-> [NullStats EXCEPT !.records_processed = 0]]
  ELSE AloneLoop([IdleTask EXCEPT !.conn = runlog[id].conn,
                                  !.entity = runlog[id].entity,
                                  !.hid = id, !.df = runlog[id].df])

\* The stored data of connection c.
DataOf(c, cns, hist, tbl) ==
  [conn |-> [f \in {"last_sync_at", "last_sync_status", "last_sync_error",
                    "last_sync_records_count"} |-> cns[c][f]],
   history |-> {h \in {hist[id] : id \in DOMAIN hist} : h.connection_id = c},
   records |-> {r \in tbl : r.connection_id = c}]

\* C18: sync runs of different connections share no mutable state: a step
\* of a run changes no canonical record, Sync History row or last-sync
\* field of another connection; every record and history row belongs to
\* the connection of the run that wrote it; and each finished run has the
\* status and counts it would have had running alone.
C18_ConnectionIndependence ==
  /\ [](/\ \A r \in tables : r.connection_id = runlog[r.id[1]].conn
        /\ \A id \in DOMAIN sync_history :
             sync_history[id].connection_id = runlog[id].conn
        /\ \A id \in RunIds :
             Ended(id) => /\ sync_history[id].status = Alone(id).status
                          /\ sync_history[id].counts = Alone(id).counts)
  /\ [][\A c \in Conns :
          (\A t \in Tasks : tasks'[t] # tasks[t] => tasks'[t].conn # c) =>
            DataOf(c, connections', sync_history', tables')
              = DataOf(c, connections, sync_history, tables)]_vars

\* Two completed runs of the same entity type on different connections
\* that overlapped in time, each with records stored.
C18_Witness ==
  \E a, b \in RunIds :
    /\ runlog[a].conn # runlog[b].conn
    /\ runlog[a].entity = runlog[b].entity
    /\ runlog[a].outcome = "returned" /\ runlog[b].outcome = "returned"
    /\ runlog[b].started < runlog[a].ended
    /\ runlog[a].started < runlog[b].ended
    /\ runlog[a].batches # <<>> /\ runlog[b].batches # <<>>
    /\ \E r, q \in tables : r.id[1] = a /\ q.id[1] = b

\* ------------------------------------------------- Xero date parsing
\* An epoch-wrapped string "/Date(<ms><suffix>)/" is held as the number its
\* digits spell, split as ms = (days * 86400 + secs) * 1000 + msec.
MaxDay == 2932896        \* 9999-12-31, the last day a datetime can hold
EpochDays == {0, 19675, 19676, MaxDay, MaxDay + 1, 99999999}
EpochSecs == {0, 80000, 86399}
Suffixes == {"", "+0000", "+1300", "-0500"}
TzOffsets == {-43200, 0, 7200, 50400}   \* local zone, seconds east of UTC
IsoDates == {<<2023, 11, 14>>, <<2024, 2, 29>>, <<2023, 2, 29>>,
             <<2023, 13, 1>>, <<2023, 4, 31>>}

DateInputs ==
  {[kind |-> "none"], [kind |-> "number"], [kind |-> "malformed"]}
  \cup [kind : {"iso"}, ymd : IsoDates]
  \cup [kind : {"datetime"}, ymd : {<<2023, 11, 14>>}, sec : {80000},
        msec : {0}]
  \cup [kind : {"epoch"}, days : EpochDays, secs : EpochSecs,
        msec : {0, 999}, suffix : Suffixes]

\* The proleptic Gregorian date of day number z (day 0 is 1970-01-01).
CivilFromDays(z) ==
  LET zz == z + 719468
      era == zz \div 146097
      doe == zz - era * 146097
      yoe == (doe - doe \div 1460 + doe \div 36524 - doe \div 146096) \div 365
      doy == doe - (365 * yoe + yoe \div 4 - yoe \div 100)
      mp == (5 * doy + 2) \div 153
      d == doy - (153 * mp + 2) \div 5 + 1
      m == IF mp < 10 THEN mp + 3 ELSE mp - 9
      y == yoe + era * 400 + (IF m <= 2 THEN 1 ELSE 0)
  IN <<y, m, d>>

IsLeap(y) == y % 4 = 0 /\ (y % 100 # 0 \/ y % 400 = 0)
DaysInMonth(y, m) ==
  IF m = 2 THEN (IF IsLeap(y) THEN 29 ELSE 28)
  ELSE IF m \in {4, 6, 9, 11} THEN 30 ELSE 31
ValidDate(ymd) ==
  /\ ymd[1] \in 1..9999
  /\ ymd[2] \in 1..12
  /\ ymd[3] \in 1..DaysInMonth(ymd[1], ymd[2])

NoneResult == [kind |-> "none"]
Raised == [kind |-> "raise"]

\* datetime.fromtimestamp(timestamp_ms / 1000): the naive local time of the
\* instant, in the zone of the process; raises when the year leaves 1..9999.
fromtimestamp(x, tz) ==
  LET day == x.days + (x.secs + tz) \div 86400
      sec == (x.secs + tz) % 86400
  IN IF day > MaxDay
     THEN Raised
     ELSE [kind |-> "datetime", ymd |-> CivilFromDays(day), sec |-> sec,
           msec |-> x.msec]

\* parse_xero_date
parse_xero_date(x, tz) ==
  IF x.kind = "none" THEN NoneResult
  ELSE IF x.kind = "datetime" THEN x     \* a datetime is a date: returned as is
  ELSE IF x.kind = "epoch"
  THEN LET dt == fromtimestamp(x, tz)
       IN IF dt = Raised THEN Raised
          ELSE [kind |-> "date", ymd |-> dt.ymd]
  ELSE IF x.kind = "iso" /\ ValidDate(x.ymd)
  THEN [kind |-> "date", ymd |-> x.ymd]
  ELSE NoneResult

\* parse_xero_datetime
parse_xero_datetime(x, tz) ==
  IF x.kind = "none" THEN NoneResult
  ELSE IF x.kind = "datetime" THEN x
  ELSE IF x.kind = "epoch" THEN fromtimestamp(x, tz)
  ELSE IF x.kind = "iso" /\ ValidDate(x.ymd)
  THEN [kind |-> "datetime", ymd |-> x.ymd, sec |-> 0, msec |-> 0]
  ELSE NoneResult

DatesInit ==
  /\ PmsInit /\ scope = Off /\ xero = Off /\ LateOff
  /\ dates \in [pc : {"call"}, x : DateInputs, tz : TzOffsets,
                fn : {"none"}, result : {NoneResult}]

ParseDate ==
  /\ dates.pc = "call"
  /\ dates' = [dates EXCEPT !.pc = "done", !.fn = "parse_xero_date",
                 !.result = parse_xero_date(dates.x, dates.tz)]
  /\ UNCHANGED <<pmsVars, scope, xero, lateVars>>

ParseDatetime ==
  /\ dates.pc = "call"
  /\ dates' = [dates EXCEPT !.pc = "done", !.fn = "parse_xero_datetime",
                 !.result = parse_xero_datetime(dates.x, dates.tz)]
  /\ UNCHANGED <<pmsVars, scope, xero, lateVars>>

DatesNext == ParseDate \/ ParseDatetime
SpecDates == DatesInit /\ [][DatesNext]_vars

\* C19: for a well-formed epoch-wrapped string whose instant a date can
\* hold, parse_xero_date returns the UTC calendar date of ms / 1000 seconds
\* since the epoch, whatever the offset suffix and the local time zone of
\* the process; 1700000000000 ms gives 2023-11-14.
C19_EpochDateAsClaimed ==
  (/\ dates.pc = "done"
   /\ dates.fn = "parse_xero_date"
   /\ dates.x.kind = "epoch"
   /\ dates.x.days < MaxDay) =>
     /\ dates.result = [kind |-> "date", ymd |-> CivilFromDays(dates.x.days)]
     /\ (dates.x.days = 19675 /\ dates.x.secs = 80000 /\ dates.x.msec = 0)
          => dates.result.ymd = <<2023, 11, 14>>

\* C20: parse_xero_date and parse_xero_datetime return a date, a datetime
\* or null for every input and never raise.
C20_NeverRaisesAsClaimed ==
  dates.pc = "done" => dates.result.kind \in {"none", "date", "datetime"}

\* ------------------------------------------------- value normalisation
\* A float is finite (held in tenths), NaN or an infinity.  "float" is the
\* Python float and numpy's float64, which subclasses it; "float32" stands
\* for the numpy floating types that do not.
Fin(t) == [cls |-> "finite", tenths |-> t]
NaN == [cls |-> "nan"]
PosInf == [cls |-> "inf", neg |-> FALSE]
NegInf == [cls |-> "inf", neg |-> TRUE]
FloatVals == {Fin(0), Fin(15), Fin(-25), NaN, PosInf, NegInf}
Spellings == {"12", "1.5", "nan", "NaN", "inf", "-inf", "Infinity", "abc", ""}
None == [type |-> "NoneType"]
Absent == [type |-> "absent"]
Raise(exc) == [type |-> "raise", exc |-> exc]

SourceValues ==
  {None}
  \cup [type : {"float", "float32"}, v : FloatVals]
  \cup [type : {"int"}, n : {0, 7}]
  \cup [type : {"str"}, text : Spellings]
  \cup [type : {"Timestamp"}, nat : BOOLEAN]

\* pandas.isna on a scalar
pd_isna(val) ==
  \/ val = None
  \/ val.type \in {"float", "float32"} /\ val.v = NaN
  \/ val.type = "Timestamp" /\ val.nat

clean_value(val) ==
  IF val = None THEN None
  ELSE IF val.type = "float" /\ val.v.cls \in {"nan", "inf"} THEN None
  ELSE IF val.type = "Timestamp"
  THEN (IF pd_isna(val) THEN None ELSE [type |-> "datetime"])
  ELSE IF pd_isna(val) THEN None
  ELSE val

\* float(text): the spellings of NaN and the infinities are accepted.
ParseFloat(text) ==
  CASE text = "12" -> Fin(120)
    [] text = "1.5" -> Fin(15)
    [] text \in {"nan", "NaN"} -> NaN
    [] text \in {"inf", "Infinity"} -> PosInf
    [] text = "-inf" -> NegInf
    [] OTHER -> Raise("ValueError")

\* float(val)
ToFloat(val) ==
  CASE val.type \in {"float", "float32"} -> val.v
    [] val.type = "int" -> Fin(val.n * 10)
    [] val.type = "str" -> ParseFloat(val.text)
    [] OTHER -> Raise("TypeError")

\* int(f) of a float: truncates towards zero
ToInt(f) ==
  CASE f.cls = "nan" -> Raise("ValueError")
    [] f.cls = "inf" -> Raise("OverflowError")
    [] OTHER -> [type |-> "int",
                 n |-> IF f.tenths >= 0 THEN f.tenths \div 10
                       ELSE -((-f.tenths) \div 10)]

Caught == {Raise("ValueError"), Raise("TypeError")}

safe_int(val) ==
  LET v == clean_value(val)
  IN IF v = None THEN None
     ELSE LET f == ToFloat(v)
          IN IF f \in Caught THEN None
             ELSE LET i == ToInt(f)
                  IN IF i \in Caught THEN None ELSE i

safe_float(val) ==
  LET v == clean_value(val)
  IN IF v = None THEN None
     ELSE LET f == ToFloat(v)
          IN IF f \in Caught THEN None ELSE [type |-> "float", v |-> f]

\* row_to_json, for one column of the row: the value kept under the
\* column's key, or Absent when the key is dropped.
row_to_json(val) ==
  LET v == clean_value(val)
  IN IF v = None THEN Absent
     ELSE IF v.type = "datetime" THEN [type |-> "str", text |-> "isoformat"]
     ELSE IF v.type \in {"float", "float32"}
     THEN [type |-> "float", v |-> v.v]
     ELSE v

NormFns == {"clean_value", "safe_int", "safe_float", "row_to_json"}
ApplyNorm(fn, val) ==
  CASE fn = "clean_value" -> clean_value(val)
    [] fn = "safe_int" -> safe_int(val)
    [] fn = "safe_float" -> safe_float(val)
    [] fn = "row_to_json" -> row_to_json(val)

NormInit ==
  /\ PmsInit /\ scope = Off /\ xero = Off /\ dates = Off
  /\ xsync = Off /\ soe_integrations = Off /\ xrows = Off /\ refresh = Off /\ trigger = Off
  /\ norm \in [pc : {"call"}, val : SourceValues, fn : {"none"},
               result : {None}]

NormCall(fn) ==
  /\ norm.pc = "call"
  /\ norm' = [norm EXCEPT !.pc = "done", !.fn = fn,
                !.result = ApplyNorm(fn, norm.val)]
  /\ UNCHANGED <<pmsVars, scope, xero, dates, xsync, soe_integrations,
                 xrows, refresh, trigger>>

NormNext == \E fn \in NormFns : NormCall(fn)
SpecNorm == NormInit /\ [][NormNext]_vars

\* C21: whatever the source value, a float NaN or infinity or a string
\* spelling one, clean_value, safe_int, safe_float and row_to_json never
\* raise, and a number they produce or keep is finite.
C21_SanitizedAsClaimed ==
  norm.pc = "done" =>
    /\ norm.result.type # "raise"
    /\ norm.result.type \in {"float", "float32"} =>
         norm.result.v.cls = "finite"

\* ------------------------------------------------- derived status
PyBool(b) == [type |-> "bool", b |-> b]
PyInt(n) == [type |-> "int", n |-> n]
PyStr(t) == [type |-> "str", text |-> t]
PyFloat(v) == [type |-> "float", v |-> v]

\* Values a flag column holds after a frame is read: booleans, integers,
\* floats (an integer or boolean column with nulls is read as float64) and
\* strings.
FlagVals ==
  {None, PyBool(TRUE), PyBool(FALSE), PyInt(1), PyInt(0), PyFloat(Fin(10)),
   PyFloat(Fin(0)), PyFloat(NaN), PyStr("true"), PyStr("Yes"), PyStr("no"), PyStr("1")}

\* bool(val) in an `if`
Truthy_(val) ==
  CASE val = None -> FALSE
    [] val.type = "bool" -> val.b
    [] val.type = "int" -> val.n # 0
    [] val.type = "float" -> val.v # Fin(0)
    [] val.type = "str" -> val.text # ""
    [] OTHER -> TRUE

\* str(val)
StrOf(val) ==
  CASE val.type = "bool" -> (IF val.b THEN "True" ELSE "False")
    [] val.type = "int" -> (IF val.n = 1 THEN "1" ELSE "0")
    [] val.type = "float" ->
         (IF val.v = Fin(10) THEN "1.0"
          ELSE IF val.v = Fin(0) THEN "0.0" ELSE "nan")
    [] val.type = "str" -> val.text
    [] OTHER -> "None"

\* text.lower()
Lower(text) ==
  CASE text = "True" -> "true"
    [] text = "False" -> "false"
    [] text = "Yes" -> "yes"
    [] text = "None" -> "none"
    [] OTHER -> text

StrLower(val) == Lower(StrOf(val))

FlagTest(val) == Truthy_(val) /\ StrLower(val) \in {"true", "1", "yes"}

safe_str(val) ==
  LET v == clean_value(val)
  IN IF v = None THEN None ELSE PyStr(StrOf(v))

\* safe_bool: the reading of a boolean-like value used elsewhere in the
\* service.
safe_bool(val) ==
  LET v == clean_value(val)
  IN CASE v = None -> None
       [] v.type = "bool" -> v
       [] v.type \in {"int", "float"} -> PyBool(Truthy_(v))
       [] v.type = "str" ->
            PyBool(StrLower(v) \in {"true", "1", "yes", "active"})
       [] OTHER -> None

derive_appointment_status(row) ==
  LET cancelled == clean_value(row.Cancelled)
      fta == clean_value(row.FTA)
      appt_cat == safe_str(row.apptCat)
  IN IF FlagTest(cancelled) THEN PyStr("Cancelled")
     ELSE IF FlagTest(fta) THEN PyStr("FTA")
     ELSE appt_cat

derive_patient_status(row) ==
  LET w_inactive == clean_value(row.wInactive)
      inactive == clean_value(row.Inactive)
  IN IF FlagTest(w_inactive) THEN PyStr("Inactive")
     ELSE IF FlagTest(inactive) THEN PyStr("Inactive")
     ELSE PyStr("Active")

\* The status the record built by _sync_appointments carries.
AppointmentRecordStatus(row) == derive_appointment_status(row)

\* The status the record built by _sync_patients carries: the key is set
\* only inside the enrichment from debtor4, so a patient without a debtor4
\* row has none (the column is NULL on insert, left as it was on update).
PatientRecordStatus(row) ==
  IF row.has_debtor THEN derive_patient_status(row) ELSE Absent

AppointmentRows ==
  [table : {"appointments"}, Cancelled : FlagVals, FTA : FlagVals,
   apptCat : {None, PyStr("exam")}]
PatientRows ==
  [table : {"patients"}, has_debtor : BOOLEAN, wInactive : FlagVals,
   Inactive : FlagVals]

DeriveInit ==
  /\ PmsInit /\ scope = Off /\ xero = Off /\ dates = Off
  /\ xsync = Off /\ soe_integrations = Off /\ xrows = Off /\ refresh = Off /\ trigger = Off
  /\ norm \in [pc : {"row"}, row : AppointmentRows \cup PatientRows,
               status : {None}]

BuildAppointment ==
  /\ norm.pc = "row"
  /\ norm.row.table = "appointments"
  /\ norm' = [norm EXCEPT !.pc = "built",
                !.status = AppointmentRecordStatus(norm.row)]
  /\ UNCHANGED <<pmsVars, scope, xero, dates, xsync, soe_integrations,
                 xrows, refresh, trigger>>

BuildPatient ==
  /\ norm.pc = "row"
  /\ norm.row.table = "patients"
  /\ norm' = [norm EXCEPT !.pc = "built",
                !.status = PatientRecordStatus(norm.row)]
  /\ UNCHANGED <<pmsVars, scope, xero, dates, xsync, soe_integrations,
                 xrows, refresh, trigger>>

DeriveNext == BuildAppointment \/ BuildPatient
SpecDerive == DeriveInit /\ [][DeriveNext]_vars

\* A flag is set when its boolean reading is true.
IsSet(val) == safe_bool(val) = PyBool(TRUE)

\* C25: the record built from an appointment row has status "Cancelled" if
\* the Cancelled flag is set, else "FTA" if the FTA flag is set, else the
\* apptCat category; the record built from a patient row has "Inactive" if
\* wInactive or Inactive is set, else "Active".
C25_DerivedStatusAsClaimed ==
  norm.pc = "built" =>
    IF norm.row.table = "appointments"
    THEN norm.status =
           (IF IsSet(norm.row.Cancelled) THEN PyStr("Cancelled")
            ELSE IF IsSet(norm.row.FTA) THEN PyStr("FTA")
            ELSE safe_str(norm.row.apptCat))
    ELSE norm.status =
           (IF IsSet(norm.row.wInactive) \/ IsSet(norm.row.Inactive)
            THEN PyStr("Inactive") ELSE PyStr("Active"))

\* The same restricted to flags held as booleans, integers or strings and
\* to patients that have a debtor4 row: there the precedence is as stated.
C25_PlainFlags ==
  LET Plain(v) == v = None \/ v.type # "float"
  IN norm.pc = "built" =>
       IF norm.row.table = "appointments"
       THEN (Plain(norm.row.Cancelled) /\ Plain(norm.row.FTA)) =>
              norm.status =
                (IF IsSet(norm.row.Cancelled) THEN PyStr("Cancelled")
                 ELSE IF IsSet(norm.row.FTA) THEN PyStr("FTA")
                 ELSE safe_str(norm.row.apptCat))
       ELSE (/\ norm.row.has_debtor
             /\ Plain(norm.row.wInactive) /\ Plain(norm.row.Inactive)) =>
              norm.status =
                (IF IsSet(norm.row.wInactive) \/ IsSet(norm.row.Inactive)
                 THEN PyStr("Inactive") ELSE PyStr("Active"))

\* ------------------------------------------------- Xero sync-all endpoint
MaxItems == 3      \* records the tenant holds per entity type
MaxLimit == 2      \* largest value of the limit query parameter

\* sync_functions, in the order of the list
XeroEntities ==
  <<"accounts", "contacts", "contact_groups", "invoices", "credit_notes",
    "payments", "bank_transactions", "bank_transfers", "journals">>

\* One sync function (sync_accounts, ..., sync_journals) called with the
\* tenant and the session only: it fetches every record of the tenant,
\* upserts each and commits; any exception rolls back and leaves as an
\* HTTPException.
SyncFunction(entity, n, ok) ==
  IF ok
  THEN [returned |-> TRUE, upserted |-> n,
        result |-> [entity_type |-> entity, synced_count |-> n,
                    status |-> "success"]]
  ELSE [returned |-> FALSE, upserted |-> 0, result |-> Null]

XsyncInit ==
  /\ PmsInit /\ scope = Off /\ xero = Off /\ dates = Off
  /\ norm = Off /\ soe_integrations = Off /\ xrows = Off /\ refresh = Off /\ trigger = Off
  /\ xsync \in [pc : {"loop"}, limit : 0..MaxLimit, n : 0..MaxItems,
                i : {1}, results : {<<>>},
                upserted : {[e \in {} |-> 0]}]

\* One iteration of the loop over sync_functions.
XsyncEntity ==
  /\ xsync.pc = "loop"
  /\ xsync.i <= Len(XeroEntities)
  /\ \E ok \in BOOLEAN :
       LET e == XeroEntities[xsync.i]
           r == SyncFunction(e, xsync.n, ok)
           res == IF r.returned THEN r.result
                  ELSE [entity_type |-> e, synced_count |-> 0,
                        status |-> "failed"]
       IN xsync' = [xsync EXCEPT !.i = @ + 1,
                      !.results = Append(@, res),
                      !.upserted = Put(@, e, r.upserted)]
  /\ UNCHANGED <<pmsVars, scope, xero, dates, norm, soe_integrations,
                 xrows, refresh, trigger>>

XsyncReturn ==
  /\ xsync.pc = "loop"
  /\ xsync.i > Len(XeroEntities)
  /\ xsync' = [xsync EXCEPT !.pc = "done"]
  /\ UNCHANGED <<pmsVars, scope, xero, dates, norm, soe_integrations,
                 xrows, refresh, trigger>>

XsyncNext == XsyncEntity \/ XsyncReturn
SpecXsync == XsyncInit /\ [][XsyncNext]_vars

\* C22: the response of sync_all_xero_data holds one result per entity
\* type, nine in the fixed order; with limit = L > 0 at most L records are
\* upserted per entity type, and with limit = 0 every record of an entity
\* type whose sync succeeded.
C22_SyncAllLimitAsClaimed ==
  xsync.pc = "done" =>
    /\ Len(xsync.results) = Len(XeroEntities)
    /\ \A k \in 1..Len(XeroEntities) :
         LET e == XeroEntities[k]  r == xsync.results[k]
         IN /\ r.entity_type = e
            /\ xsync.limit > 0 => xsync.upserted[e] <= xsync.limit
            /\ (xsync.limit = 0 /\ r.status = "success")
                 => xsync.upserted[e] = xsync.n

\* ------------------------------------------------- source-id catalog sync
MaxLakeChanges == 1
LakeIds == {"I1", "I2"}
NameOrder == <<"IntA", "IntB">>      \* names in sort order
LakeNames == {NameOrder[k] : k \in 1..Len(NameOrder)}
LakePairs == LakeIds \X LakeNames

\* get_soe_distinct_integrations: the distinct (id, name) pairs, sorted by
\* name.  Pairs of equal name come in the iteration order of a set of
\* tuples of strings, which is any order.  Only the first id of each name
\* matters to the caller, so the result is given as the possible choices
\* name -> first id.
FirstIdChoices(pairs) ==
  LET names == {pr[2] : pr \in pairs}
  IN {f \in [names -> LakeIds] : \A nm \in names : <<f[nm], nm>> \in pairs}

\* The upserts of sync_integrations_to_postgres over the de-duplicated list,
\* in list order: each writes integration_name of the row keyed by
\* integration_id, inserting the row when it is missing.
RECURSIVE UpsertNames(_, _, _)
UpsertNames(rows, first, k) ==
  IF k > Len(NameOrder) THEN rows
  ELSE IF NameOrder[k] \in DOMAIN first
  THEN UpsertNames(Put(rows, first[NameOrder[k]], NameOrder[k]), first, k + 1)
  ELSE UpsertNames(rows, first, k + 1)

CatalogInit ==
  /\ PmsInit /\ scope = Off /\ xero = Off /\ dates = Off
  /\ norm = Off /\ xsync = Off /\ xrows = Off /\ refresh = Off /\ trigger = Off
  /\ \E lake \in SUBSET LakePairs :
       soe_integrations = [pc |-> "idle", rows |-> EmptyFn, lake |-> lake,
                           changes |-> 0]

\* One request to POST /sync/integrations, to its commit.
sync_integrations_to_postgres ==
  /\ soe_integrations.pc = "idle"
  /\ \E first \in FirstIdChoices(soe_integrations.lake) :
       soe_integrations' =
         [soe_integrations EXCEPT !.rows = UpsertNames(@, first, 1)]
  /\ UNCHANGED <<pmsVars, scope, xero, dates, norm, xsync, xrows, refresh, trigger>>

\* The data lake is rewritten by its owner.
LakeChange ==
  /\ soe_integrations.pc = "idle"
  /\ soe_integrations.changes < MaxLakeChanges
  /\ \E lake \in SUBSET LakePairs :
       /\ lake # soe_integrations.lake
       /\ soe_integrations' = [soe_integrations EXCEPT !.lake = lake,
                                 !.changes = @ + 1]
  /\ UNCHANGED <<pmsVars, scope, xero, dates, norm, xsync, xrows, refresh, trigger>>

CatalogNext == sync_integrations_to_postgres \/ LakeChange
SpecCatalog == CatalogInit /\ [][CatalogNext]_vars

\* C23: after any sequence of sync_integrations_to_postgres runs no two
\* rows of soe.soe_integrations have the same integration_name.
C23_CatalogNameUniqueAsClaimed ==
  soe_integrations.pc = "idle" =>
    \A i, j \in DOMAIN soe_integrations.rows :
      soe_integrations.rows[i] = soe_integrations.rows[j] => i = j

\* ------------------------------------------------- claims C24, C26..C28
\* The position of an entity type in entity_flags.
OrderIndex(e) == CHOOSE k \in 1..Len(EntityOrder) : EntityOrder[k] = e

\* C24: within one sync_all run the entity types are entered in the order
\* patients, appointments, providers, and the Sync History row of one is
\* COMPLETED or FAILED before the row of the next is created, so the run
\* never has two rows RUNNING.
C24_Sequential ==
  \A t \in Tasks :
    tasks[t].kind = "all" =>
      /\ \A i, j \in 1..Len(tasks[t].invoked) :
           i < j => OrderIndex(tasks[t].invoked[i])
                      < OrderIndex(tasks[t].invoked[j])
      /\ \A i, j \in 1..Len(tasks[t].invoked) :
           (i < j /\ <<t, j>> \in DOMAIN sync_history)
             => /\ <<t, i>> \in DOMAIN sync_history
                /\ sync_history[<<t, i>>].status \in Terminal
      /\ Cardinality({id \in DOMAIN sync_history :
                        id[1] = t /\ sync_history[id].status = "RUNNING"}) <= 1

\* A finished sync_all that went through the three entity types, each
\* row terminal before the next one started.
C24_Witness ==
  \E t \in Tasks :
    /\ tasks[t].kind = "all"
    /\ tasks[t].pc = "done"
    /\ tasks[t].invoked = EntityOrder
    /\ \A k \in 1..Len(EntityOrder) :
         /\ <<t, k>> \in DOMAIN sync_history
         /\ sync_history[<<t, k>>].status \in Terminal
    /\ \A k \in 1..(Len(EntityOrder) - 1) :
         sync_history[<<t, k>>].completed_at
           <= sync_history[<<t, k + 1>>].started_at

\* ------------------------------------------------- claim C27
\* No task is inside a sync of connection c.
Quiet(c) == \A t \in Tasks : tasks[t].conn = c => tasks[t].pc = "done"
TerminalRows(c) ==
  {id \in DOMAIN sync_history : /\ sync_history[id].connection_id = c
                                /\ sync_history[id].status \in Terminal}
LatestRows(c) ==
  {id \in TerminalRows(c) :
     \A o \in TerminalRows(c) :
       sync_history[o].completed_at <= sync_history[id].completed_at}

\* C27: when no sync of a connection is running and the connection has a
\* terminal Sync History row, its last_sync_status and last_sync_error are
\* the status and error_message of the row completed last.
C27_SummaryAgreesAsClaimed ==
  \A c \in Conns :
    (Quiet(c) /\ TerminalRows(c) # {}) =>
      \A id \in LatestRows(c) :
        /\ connections[c].last_sync_status = sync_history[id].status
        /\ connections[c].last_sync_error = sync_history[id].error_message

\* ------------------------------------------------- claim C28
\* Records a run wrote in batches whose commit succeeded.
CommittedSlots(id) ==
  {s \in (1..MaxN) \X (1..BATCH_SIZE) :
     /\ s[1] <= Len(runlog[id].batches)
     /\ s[2] <= Len(runlog[id].batches[s[1]])}
CommittedCount(id) == Cardinality(CommittedSlots(id))

\* C28: a run that failed after committing batches has a FAILED row whose
\* records_processed is not smaller than the number of records the run
\* committed.
C28_ProgressOnFailureAsClaimed ==
  \A id \in RunIds :
    (/\ id \in DOMAIN sync_history
     /\ sync_history[id].status = "FAILED"
     /\ runlog[id].batches # <<>>) =>
      sync_history[id].counts.records_processed >= CommittedCount(id)

\* ------------------------------------------------- sync trigger
MaxStatusChanges == 2

\* The connection row as the trigger sees it: its connection_status, or
\* "DELETED" when the row is gone.
TriggerInit ==
  /\ PmsInit /\ scope = Off /\ xero = Off /\ dates = Off
  /\ norm = Off /\ xsync = Off /\ soe_integrations = Off
  /\ xrows = Off /\ refresh = Off
  /\ \E st \in {"CONNECTED", "DISABLED"} :
       trigger = [conn |-> st, pc |-> "idle", kind |-> Null,
                  queue |-> <<>>, loaded |-> Null, hist |-> <<>>,
                  changes |-> 0]

\* The common part of the two trigger endpoints: 404, 400 or accepted.
Accept(kind) ==
  [trigger EXCEPT
     !.pc = IF trigger.conn = "DELETED" THEN "404"
            ELSE IF trigger.conn = "DISABLED" THEN "400"
            ELSE "accepted",
     !.kind = kind]

\* POST /connections/{id}/sync
sync_connection ==
  /\ trigger.pc = "idle"
  /\ trigger' = Accept("all")
  /\ UNCHANGED <<pmsVars, scope, xero, dates, norm, xsync,
                 soe_integrations, xrows, refresh>>

\* POST /connections/{id}/sync/{entity_type}, entity_type valid
sync_entity_endpoint(e) ==
  /\ trigger.pc = "idle"
  /\ trigger' = Accept(e)
  /\ UNCHANGED <<pmsVars, scope, xero, dates, norm, xsync,
                 soe_integrations, xrows, refresh>>

\* PUT /connections/{id} with connection_status (update_connection)
SetConnectionStatus(st) ==
  /\ trigger.changes < MaxStatusChanges
  /\ trigger.conn \notin {"DELETED", st}
  /\ trigger.pc \notin {"404", "400", "done"}
  /\ trigger' = [trigger EXCEPT !.conn = st, !.changes = @ + 1]
  /\ UNCHANGED <<pmsVars, scope, xero, dates, norm, xsync,
                 soe_integrations, xrows, refresh>>

\* DELETE /connections/{id}
delete_connection ==
  /\ trigger.changes < MaxStatusChanges
  /\ trigger.conn # "DELETED"
  /\ trigger.pc \notin {"404", "400", "done"}
  /\ trigger' = [trigger EXCEPT !.conn = "DELETED", !.changes = @ + 1]
  /\ UNCHANGED <<pmsVars, scope, xero, dates, norm, xsync,
                 soe_integrations, xrows, refresh>>

\* _run_sync_in_background / _run_entity_sync_in_background: load the
\* connection; return if it is gone; otherwise call the service.
run_sync_in_background ==
  /\ trigger.pc = "accepted"
  /\ trigger' =
       IF trigger.conn = "DELETED"
       THEN [trigger EXCEPT !.pc = "done", !.loaded = "DELETED"]
       ELSE [trigger EXCEPT !.pc = "running", !.loaded = trigger.conn,
               !.queue = IF trigger.kind = "all" THEN EntityOrder
                         ELSE <<trigger.kind>>]
  /\ UNCHANGED <<pmsVars, scope, xero, dates, norm, xsync,
                 soe_integrations, xrows, refresh>>

\* One sync_entity call of the task: its Sync History row is inserted and
\* its records are written; `at` is the connection's status when the row
\* is inserted.
TriggerSyncEntity ==
  /\ trigger.pc = "running"
  /\ trigger.queue # <<>>
  /\ trigger' = [trigger EXCEPT
       !.hist = Append(@, [scope |-> Head(trigger.queue),
                           at |-> trigger.conn]),
       !.queue = Tail(@)]
  /\ UNCHANGED <<pmsVars, scope, xero, dates, norm, xsync,
                 soe_integrations, xrows, refresh>>

TriggerReturn ==
  /\ trigger.pc = "running"
  /\ trigger.queue = <<>>
  /\ trigger' = [trigger EXCEPT !.pc = "done"]
  /\ UNCHANGED <<pmsVars, scope, xero, dates, norm, xsync,
                 soe_integrations, xrows, refresh>>

TriggerNext ==
  \/ sync_connection
  \/ \E e \in EntityMap : sync_entity_endpoint(e)
  \/ \E st \in {"CONNECTED", "DISABLED"} : SetConnectionStatus(st)
  \/ delete_connection
  \/ run_sync_in_background
  \/ TriggerSyncEntity
  \/ TriggerReturn
SpecTrigger == TriggerInit /\ [][TriggerNext]_vars

\* C26: no Sync History row is created (and no record written) for a
\* connection that is DISABLED at that moment, also when it was disabled
\* after the request was accepted; a connection deleted before the
\* background task starts is not synced.
C26_DisabledNeverSyncedAsClaimed ==
  /\ \A i \in 1..Len(trigger.hist) : trigger.hist[i].at # "DISABLED"
  /\ trigger.loaded = "DELETED" => trigger.hist = <<>>

\* What the code does ensure: a request is accepted only for a connection
\* that exists and is not DISABLED when the request is handled, and a task
\* that finds the connection gone creates nothing.
C26_CheckedAtRequestOnly ==
  /\ trigger.pc \in {"400", "404"} => trigger.hist = <<>>
  /\ trigger.loaded = "DELETED" => trigger.hist = <<>>

\* ------------------------------------------------- typed columns
\* One invoice, one account and one patient at their sources, changing
\* between syncs, and the rows the syncs keep of them.
MaxSourceChanges == 2

InvoicePayloads ==
  [Status : {"DRAFT", "PAID"}, Total : {100, 120}, AmountDue : {0, 100},
   DueDate : {[kind |-> "iso", ymd |-> <<2023, 11, 14>>],
              [kind |-> "iso", ymd |-> <<2024, 2, 29>>]}]
AccountPayloads ==
  [Name : {"Sales", "Revenue"}, Code : {"200", "210"},
   Status : {"ACTIVE", "ARCHIVED"}]
\* A vw_DimPatients row with the debtor4 row found for it, if any.
PatientPayloads ==
  [Patient_Name : {PyStr("Smith")},
   debtor4 : {None, [mobilePhone |-> PyStr("070")],
              [mobilePhone |-> PyStr("071")]}]

\* insert(XeroInvoice).values(...): the typed columns of an invoice.
InvoiceValues(invoice) ==
  [status |-> invoice.Status, total |-> invoice.Total,
   amount_due |-> invoice.AmountDue,
   due_date |-> parse_xero_date(invoice.DueDate, 0),
   raw_data |-> invoice]

\* on_conflict_do_update(index_elements=["invoice_id"], set_={...})
InvoiceConflictSet == {"status", "amount_due", "raw_data"}

\* insert(XeroAccount).values(...)
AccountValues(account) ==
  [name |-> account.Name, code |-> account.Code,
   status |-> account.Status, raw_data |-> account]

\* on_conflict_do_update(index_elements=["account_id"], set_={...})
AccountConflictSet == {"name", "status", "raw_data"}

\* The record _sync_patients builds: the enrichment keys exist only when a
\* debtor4 row was found.
PatientRecord(p) ==
  IF p.debtor4 # None
  THEN [last_name |-> safe_str(p.Patient_Name),
        phone_mobile |-> safe_str(p.debtor4.mobilePhone),
        raw_data |-> p]
  ELSE [last_name |-> safe_str(p.Patient_Name), raw_data |-> p]

\* A new row has NULL in every column the statement gives no value for.
PatientColumns == {"last_name", "phone_mobile", "raw_data"}
InsertRow(columns, values) ==
  [c \in columns |-> IF c \in DOMAIN values THEN values[c] ELSE None]

\* INSERT .. ON CONFLICT DO UPDATE SET <set_>: a first insert stores every
\* value, a conflict overwrites the columns of set_ only.
OnConflictDoUpdate(stored, columns, values, set_) ==
  IF stored = None THEN InsertRow(columns, values)
  ELSE [c \in columns |->
          IF c \in set_ /\ c \in DOMAIN values THEN values[c] ELSE stored[c]]

\* _upsert_patients: set_ is every key of the record but the conflict keys.
PatientConflictSet(record) == DOMAIN record

TypedInit ==
  /\ PmsInit /\ scope = Off /\ xero = Off /\ dates = Off
  /\ norm = Off /\ xsync = Off /\ soe_integrations = Off
  /\ refresh = Off /\ trigger = Off
  /\ \E i \in InvoicePayloads, a \in AccountPayloads, p \in PatientPayloads :
       /\ i.Status = "DRAFT" /\ i.Total = 100 /\ i.AmountDue = 100
       /\ a.Name = "Sales" /\ a.Code = "200" /\ a.Status = "ACTIVE"
       /\ xrows = [pc |-> "on", changes |-> 0,
                   src |-> [invoice |-> i, account |-> a, patient |-> p],
                   invoice |-> None, account |-> None, patient |-> None]

TypedUnchanged ==
  UNCHANGED <<pmsVars, scope, xero, dates, norm, xsync, soe_integrations,
              refresh, trigger>>

\* The record changes at its source between two syncs.
SourceChange ==
  /\ xrows.pc = "on"
  /\ xrows.changes < MaxSourceChanges
  /\ \/ \E i \in InvoicePayloads :
          /\ i # xrows.src.invoice
          /\ xrows' = [xrows EXCEPT !.changes = @ + 1, !.src.invoice = i]
     \/ \E a \in AccountPayloads :
          /\ a # xrows.src.account
          /\ xrows' = [xrows EXCEPT !.changes = @ + 1, !.src.account = a]
     \/ \E p \in PatientPayloads :
          /\ p # xrows.src.patient
          /\ xrows' = [xrows EXCEPT !.changes = @ + 1, !.src.patient = p]
  /\ TypedUnchanged

sync_invoices ==
  /\ xrows.pc = "on"
  /\ xrows' = [xrows EXCEPT
       !.invoice = OnConflictDoUpdate(@,
                     DOMAIN InvoiceValues(xrows.src.invoice),
                     InvoiceValues(xrows.src.invoice), InvoiceConflictSet)]
  /\ TypedUnchanged

sync_accounts ==
  /\ xrows.pc = "on"
  /\ xrows' = [xrows EXCEPT
       !.account = OnConflictDoUpdate(@,
                     DOMAIN AccountValues(xrows.src.account),
                     AccountValues(xrows.src.account), AccountConflictSet)]
  /\ TypedUnchanged

sync_patients ==
  /\ xrows.pc = "on"
  /\ LET record == PatientRecord(xrows.src.patient)
     IN xrows' = [xrows EXCEPT
          !.patient = OnConflictDoUpdate(@, PatientColumns, record,
                                         PatientConflictSet(record))]
  /\ TypedUnchanged

TypedNext == SourceChange \/ sync_invoices \/ sync_accounts \/ sync_patients
SpecTyped == TypedInit /\ [][TypedNext]_vars

\* C29: in every stored row each typed column is the value the sync
\* derives from the raw payload stored in the same row.
C29_TypedAgreeWithRawAsClaimed ==
  /\ xrows.invoice # None =>
       xrows.invoice = InvoiceValues(xrows.invoice.raw_data)
  /\ xrows.account # None =>
       xrows.account = AccountValues(xrows.account.raw_data)
  /\ xrows.patient # None =>
       xrows.patient = InsertRow(PatientColumns,
                                 PatientRecord(xrows.patient.raw_data))

\* What does hold: the raw payload and the columns of the conflict set
\* are those of the source record last synced.
C29_RawIsLatest ==
  [][/\ (xrows'.invoice # xrows.invoice) =>
          /\ xrows'.invoice.raw_data = xrows.src.invoice
          /\ xrows'.invoice.status = xrows.src.invoice.Status
          /\ xrows'.invoice.amount_due = xrows.src.invoice.AmountDue
     /\ (xrows'.account # xrows.account) =>
          /\ xrows'.account.raw_data = xrows.src.account
          /\ xrows'.account.name = xrows.src.account.Name]_vars

\* ------------------------------------------------- concurrent refresh
\* Several API requests of one process share XeroService._tokens.  Each
\* await is a point where another request may run; get_valid_token holds
\* no lock.  Tokens are numbered in the order the token endpoint issues
\* them; token k carries access token k and refresh token k.
Requests == {1, 2}
MaxCalls == 2            \* API requests made one after another by a caller
MaxExpiries == 2         \* times the cached token comes within the buffer
MaxIssued == 4           \* tokens the endpoint issues

IdleRequest == [pc |-> "idle", rt |-> 0, resp |-> 0, calls |-> 0]

RefreshInit ==
  /\ PmsInit /\ scope = Off /\ xero = Off /\ dates = Off
  /\ norm = Off /\ xsync = Off /\ soe_integrations = Off
  /\ xrows = Off /\ trigger = Off
  /\ refresh = [pc |-> "on",
                cache |-> [access |-> 0, refresh_token |-> 0, due |-> FALSE],
                issued |-> 0, expiries |-> 0, newest |-> 0,
                posts |-> <<>>, sent |-> <<>>, redeemed |-> {},
                reqs |-> [r \in Requests |-> IdleRequest]]

RefreshUnchanged ==
  UNCHANGED <<pmsVars, scope, xero, dates, norm, xsync, soe_integrations,
              xrows, trigger>>

\* Time passes: now >= expires_at - 5 minutes for the cached token.
TokenComesDue ==
  /\ refresh.pc = "on"
  /\ ~refresh.cache.due
  /\ refresh.expiries < MaxExpiries
  /\ refresh' = [refresh EXCEPT !.cache.due = TRUE, !.expiries = @ + 1]
  /\ RefreshUnchanged

\* The request as sent: its bearer token, and the newest access token a
\* completed refresh had delivered by then.
Sent(r, access, newest) == [req |-> r, access |-> access, newest |-> newest]

\* _api_request up to its first await: get_valid_token reads the cache; a
\* token that is not due is returned at once and the request goes out, a
\* due token makes refresh_access_token post the cached refresh token.
ApiRequestBegin(r) ==
  LET q == refresh.reqs[r]
      tokens == refresh.cache
  IN /\ refresh.pc = "on"
     /\ q.pc = "idle"
     /\ q.calls < MaxCalls
     /\ IF tokens.due
        THEN refresh' = [refresh EXCEPT
               !.reqs[r] = [q EXCEPT !.pc = "posted",
                                     !.rt = tokens.refresh_token,
                                     !.calls = @ + 1],
               !.posts = Append(@, tokens.refresh_token)]
        ELSE refresh' = [refresh EXCEPT
               !.reqs[r] = [q EXCEPT !.pc = "idle", !.calls = @ + 1],
               !.sent = Append(@, Sent(r, tokens.access, refresh.newest))]
     /\ RefreshUnchanged

\* The token endpoint answers a refresh request with a new token; a
\* refresh token it has redeemed before is accepted or rejected.
TokenEndpoint(r) ==
  LET q == refresh.reqs[r]
  IN /\ refresh.pc = "on"
     /\ q.pc = "posted"
     /\ refresh.issued < MaxIssued
     /\ \E ok \in IF q.rt \in refresh.redeemed THEN BOOLEAN ELSE {TRUE} :
          IF ok
          THEN refresh' = [refresh EXCEPT
                 !.issued = @ + 1,
                 !.redeemed = @ \cup {q.rt},
                 !.reqs[r] = [q EXCEPT !.pc = "answered",
                                       !.resp = refresh.issued + 1]]
          ELSE refresh' = [refresh EXCEPT
                 !.reqs[r] = [q EXCEPT !.pc = "rejected"]]
     /\ RefreshUnchanged

\* refresh_access_token resumes with status 200: the response becomes the
\* cached token, get_valid_token returns its access token and the request
\* goes out with it.
RefreshReturn(r) ==
  LET q == refresh.reqs[r]
      newest == IF q.resp > refresh.newest THEN q.resp ELSE refresh.newest
  IN /\ refresh.pc = "on"
     /\ q.pc = "answered"
     /\ refresh' = [refresh EXCEPT
          !.cache = [access |-> q.resp, refresh_token |-> q.resp,
                     due |-> FALSE],
          !.newest = newest,
          !.sent = Append(@, Sent(r, q.resp, newest)),
          !.reqs[r] = [q EXCEPT !.pc = "idle"]]
     /\ RefreshUnchanged

\* refresh_access_token resumes with another status: it raises, the cache
\* is left as it is and no request goes out.
RefreshRaise(r) ==
  LET q == refresh.reqs[r]
  IN /\ refresh.pc = "on"
     /\ q.pc = "rejected"
     /\ refresh' = [refresh EXCEPT !.reqs[r] = [q EXCEPT !.pc = "idle"]]
     /\ RefreshUnchanged

RefreshNext ==
  \/ TokenComesDue
  \/ \E r \in Requests : ApiRequestBegin(r)
  \/ \E r \in Requests : TokenEndpoint(r)
  \/ \E r \in Requests : RefreshReturn(r)
  \/ \E r \in Requests : RefreshRaise(r)
SpecRefresh == RefreshInit /\ [][RefreshNext]_vars

\* C30: no refresh token is posted to the token endpoint twice, and a
\* request sent after a refresh completed carries the newest access token
\* delivered so far.
C30_SingleRefreshAsClaimed ==
  /\ \A i, j \in 1..Len(refresh.posts) :
       refresh.posts[i] = refresh.posts[j] => i = j
  /\ \A i \in 1..Len(refresh.sent) :
       refresh.sent[i].access = refresh.sent[i].newest

\* What does hold: requests that do not overlap refresh once per expiry.
C30_SequentialRefresh ==
  [][\A r \in Requests :
       (/\ refresh.reqs[r].pc = "idle"
        /\ refresh'.reqs[r].pc = "posted"
        /\ \A o \in Requests : refresh.reqs[o].pc = "idle") =>
         \A i \in 1..Len(refresh.posts) :
           refresh.posts[i] # refresh'.reqs[r].rt]_vars

====
